---- MODULE Spec2Model ----
(***************************************************************************)
(* Model of the annotation persistence core of                             *)
(* aind-proteomics-annotator-gui:                                          *)
(*   utils/atomic_io.py         atomic_write_json, read_json               *)
(*   models/annotation_store.py AnnotationStore                            *)
(*   models/user_session.py     UserSession                                *)
(*   config.py                  AppConfig.user_file                        *)
(* Several OS processes share one directory tree.  Every system call of    *)
(* atomic_write_json and read_json is one step, so that calls of           *)
(* different processes interleave at system-call granularity.              *)
(***************************************************************************)
EXTENDS Integers, Sequences, FiniteSets, TLC

(* ---- bounds of the model ---- *)
\* number of concurrently running processes
NumProcs == 2
\* number of uuid4 values drawn, i.e. of atomic_write_json calls in one run
MaxUuid == 3
\* number of injected faults (failing system calls of atomic_write_json, process
\* crashes) in a run of direct callers, and in a run of sessions
MaxFaults == 2
MaxSessionFaults == 1
\* number of readings of the wall clock that are told apart
MaxClock == 3
\* labels are 1..MaxLabel
MaxLabel == 2
\* length of the lists of labels given to compute_consensus
MaxVotes == 4
\* length of the lists of block ids given to build_consensus_table
MaxRows == 2
\* length of the block ids given to _get_storage_key, and number of calls of
\* set_label, clear_label and set_final_label on the store they are given to
MaxIdLen == 3
MaxKeyCalls == 2
\* the number of block selections in a run of the viewer
MaxLoads == 3
\* the max_size of the BlockCache (config.py:52 gives 10) and the longest list
\* of blocks handed to a preload worker
MaxCached == 2
MaxPreload == 2

(* ---- constants of the program ---- *)
\* atomic_io.py:72  for attempt in range(3)
MaxAttempts == 3
\* atomic_io.py:81  time.sleep(0.05 * (attempt + 1)), in milliseconds
BackoffMs == 50

Procs == 1..NumProcs
\* one of the processes, where a property is about a single session
TheSession == CHOOSE p \in Procs : TRUE
Users == {"al", "bo"}
Labels == 1..MaxLabel
\* block ids are strings, modelled as sequences of characters: "x", "d/x", "d/y"
BlockIds == {<<"x">>, <<"d", "/", "x">>, <<"d", "/", "y">>}

VARIABLES
    files,        \* the shared directory tree: path -> [data, synced]
    io,           \* per process: the frame of its atomic_write_json / read_json call
    st,           \* per process: its AnnotationStore / UserSession
    next_uuid,    \* source of uuid.uuid4() values
    clock,        \* source of _now_iso() values
    faults,       \* number of environment faults that may still be injected
    lastWritten,  \* history: per target path, the data of the last write renamed onto it
    protected,    \* history: per (user, storage key), the label set_label has persisted
    finalWritten, \* history: per storage key, the final label last renamed onto the file
    votes,        \* the list of labels given to compute_consensus
    consensus,    \* what compute_consensus returned, NoneVal before the call
    panel,        \* the AdminPanel: its user data, consensus rows and exported file
    keyed,        \* a call of _get_storage_key: its block id and what the stores returned
    app,          \* __main__.main of the session: how far startup has come
    viewer,       \* the ViewerPanel: current block id, block on screen, loads in flight
    cache         \* the BlockCache and the worker threads that call it

vars == <<files, io, st, next_uuid, clock, faults, lastWritten, protected, finalWritten,
          votes, consensus, panel, keyed, app, viewer, cache>>

(***************************************************************************)
(* Paths.                                                                  *)
(***************************************************************************)
NoPath == [dir |-> "", stem |-> "", ext |-> "", uuid |-> 0]

\* a mutant of user_file: the username does not reach the file name
user_file_shared(username) ==
    [dir |-> "users", stem |-> "user", ext |-> "json", uuid |-> 0]

\* config.py:156  users_dir / f"{username}.json"
user_file(username) ==
    [dir |-> "users", stem |-> username, ext |-> "json", uuid |-> 0]

\* atomic_io.py:31  dirpath / f".{filepath.stem}_{uuid.uuid4().hex}.tmp"
TmpPath(filepath, u) ==
    [dir |-> filepath.dir, stem |-> filepath.stem, ext |-> "tmp", uuid |-> u]

\* config.py:153-154  admin_dir / "final_labels.json"
final_labels_file == [dir |-> "admin", stem |-> "final_labels", ext |-> "json", uuid |-> 0]

\* config.py:64-66  the roles file, "./configs/roles.json" unless the environment names another
roles_file == [dir |-> "configs", stem |-> "roles", ext |-> "json", uuid |-> 0]

TargetPaths == {user_file(u) : u \in Users} \cup {final_labels_file}

(***************************************************************************)
(* Documents and their JSON text.  A document is a dict: a function from   *)
(* its keys.  The text of a file is a sequence of tokens; a strict prefix  *)
(* of a document's text is a partially written file.                       *)
(***************************************************************************)
NoneVal == [none |-> TRUE]
DecodeError == [error |-> "JSONDecodeError"]
EmptyDict == [k \in {} |-> TRUE]

Tok(tag, s, c, i, n, t) == [tag |-> tag, s |-> s, c |-> c, i |-> i, n |-> n, t |-> t]

RECURSIVE SetToSeq(_)
SetToSeq(S) ==
    IF S = {} THEN <<>>
    ELSE LET x == CHOOSE x \in S : TRUE IN <<x>> \o SetToSeq(S \ {x})

RECURSIVE Concat(_)
Concat(ss) == IF ss = <<>> THEN <<>> ELSE Head(ss) \o Concat(Tail(ss))

\* the records of one container, one token each
ItemToks(c, blocks) ==
    LET items == SetToSeq(DOMAIN blocks)
    IN [k \in 1..Len(items) |->
            Tok("record", "", c, items[k], blocks[items[k]].label,
                blocks[items[k]].annotated_at)]

AnnToks(ann) ==
    LET cs == SetToSeq(DOMAIN ann)
    IN Concat([k \in 1..Len(cs) |->
            <<Tok("container", "", cs[k], <<>>, 0, 0)>> \o ItemToks(cs[k], ann[cs[k]])])

\* the records of one container of the final-labels document, one token each
FinalItemToks(c, blocks) ==
    LET items == SetToSeq(DOMAIN blocks)
    IN [k \in 1..Len(items) |->
            Tok("final", blocks[items[k]].set_by, c, items[k],
                blocks[items[k]].final_label, blocks[items[k]].set_at)]

FinalToks(labels) ==
    LET cs == SetToSeq(DOMAIN labels)
    IN Concat([k \in 1..Len(cs) |->
            <<Tok("fcontainer", "", cs[k], <<>>, 0, 0)>>
                \o FinalItemToks(cs[k], labels[cs[k]])])

\* the names listed under "admins" in the roles file, one token each
AdminToks(admins) ==
    LET names == SetToSeq(admins)
    IN [k \in 1..Len(names) |-> Tok("admin", names[k], <<>>, <<>>, 0, 0)]

\* a mutant of json.dump: the closing brace is never written
SerializeNoClose(d) ==
    <<Tok("{", "", <<>>, <<>>, 0, 0)>>
    \o (IF "username" \in DOMAIN d
        THEN <<Tok("username", d.username, <<>>, <<>>, 0, 0)>> ELSE <<>>)
    \o (IF "created_at" \in DOMAIN d
        THEN <<Tok("created_at", "", <<>>, <<>>, 0, d.created_at)>> ELSE <<>>)
    \o (IF "updated_at" \in DOMAIN d
        THEN <<Tok("updated_at", "", <<>>, <<>>, 0, d.updated_at)>> ELSE <<>>)
    \o (IF "annotations" \in DOMAIN d
        THEN <<Tok("annotations", "", <<>>, <<>>, 0, 0)>> \o AnnToks(d.annotations)
        ELSE <<>>)
    \o (IF "labels" \in DOMAIN d
        THEN <<Tok("labels", "", <<>>, <<>>, 0, 0)>> \o FinalToks(d.labels)
        ELSE <<>>)
    \o (IF "admins" \in DOMAIN d
        THEN <<Tok("admins", "", <<>>, <<>>, 0, 0)>> \o AdminToks(d.admins)
        ELSE <<>>)

\* atomic_io.py:35  json.dump(data, fh, indent=2, ensure_ascii=False)
Serialize(d) ==
    <<Tok("{", "", <<>>, <<>>, 0, 0)>>
    \o (IF "username" \in DOMAIN d
        THEN <<Tok("username", d.username, <<>>, <<>>, 0, 0)>> ELSE <<>>)
    \o (IF "created_at" \in DOMAIN d
        THEN <<Tok("created_at", "", <<>>, <<>>, 0, d.created_at)>> ELSE <<>>)
    \o (IF "updated_at" \in DOMAIN d
        THEN <<Tok("updated_at", "", <<>>, <<>>, 0, d.updated_at)>> ELSE <<>>)
    \o (IF "annotations" \in DOMAIN d
        THEN <<Tok("annotations", "", <<>>, <<>>, 0, 0)>> \o AnnToks(d.annotations)
        ELSE <<>>)
    \o (IF "labels" \in DOMAIN d
        THEN <<Tok("labels", "", <<>>, <<>>, 0, 0)>> \o FinalToks(d.labels)
        ELSE <<>>)
    \o (IF "admins" \in DOMAIN d
        THEN <<Tok("admins", "", <<>>, <<>>, 0, 0)>> \o AdminToks(d.admins)
        ELSE <<>>)
    \o <<Tok("}", "", <<>>, <<>>, 0, 0)>>

\* a text is a whole JSON object when it opens and closes
IsComplete(text) ==
    /\ Len(text) >= 2
    /\ text[1].tag = "{"
    /\ text[Len(text)].tag = "}"
    /\ \A k \in 2..(Len(text) - 1) : text[k].tag \notin {"{", "}"}

\* atomic_io.py:77  json.load(fh): the dict, or JSONDecodeError
Parse(text) ==
    IF ~IsComplete(text) THEN DecodeError
    ELSE
      LET toks == {text[k] : k \in 2..(Len(text) - 1)}
          keys == {t.tag : t \in {x \in toks :
                      x.tag \in {"username", "created_at", "updated_at", "annotations",
                                 "labels", "admins"}}}
          the(tag) == CHOOSE t \in toks : t.tag = tag
          recs == {t \in toks : t.tag = "record"}
          conts == {t.c : t \in {x \in toks : x.tag = "container"}}
          ann == [c \in conts |->
                    [i \in {t.i : t \in {x \in recs : x.c = c}} |->
                        LET r == CHOOSE t \in recs : t.c = c /\ t.i = i
                        IN [label |-> r.n, annotated_at |-> r.t]]]
          finals == {t \in toks : t.tag = "final"}
          fconts == {t.c : t \in {x \in toks : x.tag = "fcontainer"}}
          labels == [c \in fconts |->
                    [i \in {t.i : t \in {x \in finals : x.c = c}} |->
                        LET r == CHOOSE t \in finals : t.c = c /\ t.i = i
                        IN [final_label |-> r.n, set_by |-> r.s, set_at |-> r.t]]]
      IN [k \in keys |->
            CASE k = "username" -> the(k).s
              [] k = "created_at" -> the(k).t
              [] k = "updated_at" -> the(k).t
              [] k = "labels" -> labels
              [] k = "admins" -> {t.s : t \in {x \in toks : x.tag = "admin"}}
              [] OTHER -> ann]

(***************************************************************************)
(* The file system.                                                        *)
(***************************************************************************)
Exists(path) == path \in DOMAIN files

File(text, synced) == [data |-> text, synced |-> synced]

\* open(path, "w"): creates the file or truncates it
Create(fs, path) == (path :> File(<<>>, FALSE)) @@ fs

Remove(fs, path) == [q \in (DOMAIN fs) \ {path} |-> fs[q]]

\* a mutant of os.replace: the source is copied and stays
ReplaceKeepingSource(fs, src, dst) == (dst :> fs[src]) @@ fs

\* atomic_io.py:39  os.replace(tmp_path, filepath)
Replace(fs, src, dst) == (dst :> fs[src]) @@ Remove(fs, src)

\* what a write that fails part-way leaves in the file: a strict prefix of the
\* text; the shortest and the longest stand for all of them
Prefixes(text) == {SubSeq(text, 1, k) : k \in {0, Len(text) - 1}}

(***************************************************************************)
(* AnnotationStore: one user's annotation document.                        *)
(***************************************************************************)
KeyOf(parent_path, block_name) ==
    [ok |-> TRUE, parent_path |-> parent_path, block_name |-> block_name]

\* raised inside _get_storage_key
AttributeError == [ok |-> FALSE, parent_path |-> <<>>, block_name |-> <<>>]

HasSlash(block_id) == \E k \in 1..Len(block_id) : block_id[k] = "/"

LastSlash(block_id) ==
    CHOOSE k \in 1..Len(block_id) :
        block_id[k] = "/" /\ \A j \in (k + 1)..Len(block_id) : block_id[j] # "/"

\* a mutant of line 74: the block id is split at its first "/"
GetStorageKeyFirstSlash(registry, block_id) ==
    IF registry THEN AttributeError
    ELSE IF HasSlash(block_id)
         THEN LET first == CHOOSE k \in 1..Len(block_id) :
                              /\ block_id[k] = "/"
                              /\ \A j \in 1..(k - 1) : block_id[j] # "/"
              IN KeyOf(SubSeq(block_id, 1, first - 1),
                       SubSeq(block_id, first + 1, Len(block_id)))
         ELSE KeyOf(<<>>, block_id)

\* annotation_store.py:60-76  _get_storage_key.  With a registry the method
\* calls registry.get_absolute_parent_path, which BlockRegistry
\* (block_registry.py:25-70) does not define: AttributeError.  Without one the
\* block id is split at its last "/".
GetStorageKey(registry, block_id) ==
    IF registry THEN AttributeError
    ELSE IF HasSlash(block_id)
         THEN KeyOf(SubSeq(block_id, 1, LastSlash(block_id) - 1),
                    SubSeq(block_id, LastSlash(block_id) + 1, Len(block_id)))
         ELSE KeyOf(<<>>, block_id)

\* dict.get(key, default)
Get(d, k, default) == IF k \in DOMAIN d THEN d[k] ELSE default

\* a mutant of item assignment: a key that is there keeps its value
PutIfAbsent(d, k, v) == IF k \in DOMAIN d THEN d ELSE (k :> v) @@ d

\* d[key] = value
Put(d, k, v) == (k :> v) @@ d

\* del d[key]
Del(d, k) == [q \in (DOMAIN d) \ {k} |-> d[q]]

\* annotation_store.py:82-87  the document of a first session
FreshDoc(username, now) ==
    [username |-> username, created_at |-> now, updated_at |-> now,
     annotations |-> EmptyDict]

\* the label stored in document d under a storage key, 0 when there is none
LabelIn(d, key) ==
    LET blocks == Get(Get(d, "annotations", EmptyDict), key.parent_path, EmptyDict)
    IN IF key.block_name \in DOMAIN blocks THEN blocks[key.block_name].label ELSE 0

\* the record a document holds under a storage key, NoneVal when there is none
RecordIn(d, key) ==
    LET blocks == Get(Get(d, "annotations", EmptyDict), key.parent_path, EmptyDict)
    IN IF key.block_name \in DOMAIN blocks THEN blocks[key.block_name] ELSE NoneVal

\* annotation_store.py:92-100  get_label; 0 stands for None
GetLabel(s, block_id) ==
    LabelIn(s._data, GetStorageKey(s._registry, block_id))

\* annotation_store.py:105-113  the document after set_label's assignments
WithLabel(d, key, label, now) ==
    LET d1 == IF "annotations" \notin DOMAIN d THEN Put(d, "annotations", EmptyDict) ELSE d
        a1 == IF key.parent_path \notin DOMAIN d1.annotations
              THEN Put(d1.annotations, key.parent_path, EmptyDict)
              ELSE d1.annotations
        a2 == Put(a1, key.parent_path,
                  Put(a1[key.parent_path], key.block_name,
                      [label |-> label, annotated_at |-> now]))
    IN Put(Put(d1, "annotations", a2), "updated_at", now)

\* annotation_store.py:133-143  annotated_block_ids
AnnotatedBlockIds(s) ==
    LET ann == Get(s._data, "annotations", EmptyDict)
    IN UNION {{IF parent_path # <<>> THEN parent_path \o <<"/">> \o block_name
                                    ELSE block_name : block_name \in DOMAIN ann[parent_path]}
              : parent_path \in DOMAIN ann}

\* a mutant of clear_label: a container that has become empty stays
WithoutLabelKeepsContainer(d, key, now) ==
    Put(Put(d, "annotations",
            Put(d.annotations, key.parent_path,
                Del(d.annotations[key.parent_path], key.block_name))),
        "updated_at", now)

\* a mutant of clear_label: the whole container of the block is deleted
WithoutLabelDropsContainer(d, key, now) ==
    Put(Put(d, "annotations", Del(d.annotations, key.parent_path)), "updated_at", now)

\* annotation_store.py:148-154  the document after clear_label's deletions
WithoutLabel(d, key, now) ==
    LET a == d.annotations
        blocks == Del(a[key.parent_path], key.block_name)
        a1 == IF DOMAIN blocks = {} THEN Del(a, key.parent_path)
              ELSE Put(a, key.parent_path, blocks)
    IN Put(Put(d, "annotations", a1), "updated_at", now)

\* the document at a path, NoneVal when there is no file, DecodeError when
\* the file does not hold a whole JSON object
DiskDoc(fs, path) == IF path \in DOMAIN fs THEN Parse(fs[path].data) ELSE NoneVal

IsDoc(d) == d # NoneVal /\ d # DecodeError

(***************************************************************************)
(* FinalLabelStore: the final-labels document all admins share.            *)
(***************************************************************************)
\* annotation_store.py:181-197  FinalLabelStore._get_storage_key: as that of
\* AnnotationStore, AttributeError with a registry included
FinalGetStorageKey(registry, block_id) ==
    IF registry THEN AttributeError
    ELSE IF HasSlash(block_id)
         THEN KeyOf(SubSeq(block_id, 1, LastSlash(block_id) - 1),
                    SubSeq(block_id, LastSlash(block_id) + 1, Len(block_id)))
         ELSE KeyOf(<<>>, block_id)

\* annotation_store.py:168-173  FinalLabelStore.__init__
NewFinalStore(registry, now) ==
    [_filepath |-> final_labels_file, _registry |-> registry,
     _data |-> [updated_at |-> now, labels |-> EmptyDict]]

\* annotation_store.py:178  if raw: None and the empty dict are false
Truthy(raw) == raw # NoneVal /\ raw # EmptyDict

\* the final label stored in document d under a storage key, 0 when there is none
FinalLabelIn(d, key) ==
    LET blocks == Get(Get(d, "labels", EmptyDict), key.parent_path, EmptyDict)
    IN IF key.block_name \in DOMAIN blocks THEN blocks[key.block_name].final_label ELSE 0

\* annotation_store.py:216-224  get_final_label; 0 stands for None
GetFinalLabel(fs, block_id) ==
    FinalLabelIn(fs._data, FinalGetStorageKey(fs._registry, block_id))

\* annotation_store.py:203-213  the document after set_final_label's assignments
WithFinalLabel(d, key, label, admin_username, now) ==
    LET d1 == IF "labels" \notin DOMAIN d THEN Put(d, "labels", EmptyDict) ELSE d
        l1 == IF key.parent_path \notin DOMAIN d1.labels
              THEN Put(d1.labels, key.parent_path, EmptyDict)
              ELSE d1.labels
        l2 == Put(l1, key.parent_path,
                  Put(l1[key.parent_path], key.block_name,
                      [final_label |-> label, set_by |-> admin_username,
                       set_at |-> now]))
    IN Put(Put(d1, "labels", l2), "updated_at", now)

\* annotation_store.py:226-241  the keys of all_labels()
FinalBlockIds(fs) ==
    LET labels == Get(fs._data, "labels", EmptyDict)
    IN UNION {{IF parent_path # <<>> THEN parent_path \o <<"/">> \o block_name
                                    ELSE block_name : block_name \in DOMAIN labels[parent_path]}
              : parent_path \in DOMAIN labels}

\* annotation_store.py:52-58  AnnotationStore.__init__, and the FinalLabelStore
\* of the same session (user_session.py:30-41)
NewStore(username, registry) ==
    [_username |-> username, _registry |-> registry, _data |-> EmptyDict,
     _filepath |-> user_file(username),
     final_label_store |-> NewFinalStore(registry, 0),
     phase |-> "new", op |-> "none", block_id |-> <<>>, label |-> 0, ret |-> "none"]

\* a process that uses atomic_io directly and has no store
NoStore ==
    [_username |-> "", _registry |-> FALSE, _data |-> EmptyDict, _filepath |-> NoPath,
     final_label_store |-> NewFinalStore(FALSE, 0),
     phase |-> "none", op |-> "none", block_id |-> <<>>, label |-> 0, ret |-> "none"]

Ready(p) == st[p].phase = "loaded" /\ st[p].op = "none" /\ io[p].pc = "idle"

StorageKeys == {GetStorageKey(FALSE, b) : b \in BlockIds}

\* history: the final label that a set_final_label has put on disk under a key
FinalProtect(fw, s) ==
    IF s.op = "set_final_label"
    THEN [fw EXCEPT ![FinalGetStorageKey(s.final_label_store._registry, s.block_id)] = s.label]
    ELSE fw

\* history: the record (user, key) that a set_label has put on disk and that no
\* clear_label has been called for since
Protect(prot, s) ==
    IF s.op = "set_label"
    THEN [prot EXCEPT ![<<s._username, GetStorageKey(s._registry, s.block_id)>>] = s.label]
    ELSE prot

(***************************************************************************)
(* The frame of one call of atomic_write_json or read_json.                *)
(***************************************************************************)
IdleFrame ==
    [pc |-> "idle", filepath |-> NoPath, data |-> NoneVal, tmp_path |-> NoPath,
     attempt |-> 0, last_exc |-> "none", slept |-> <<>>, result |-> NoneVal,
     failed_at |-> "none", unlink_failed |-> FALSE]

\* atomic_io.py:20  a call of atomic_write_json(filepath, data)
WriteFrame(filepath, data) ==
    [IdleFrame EXCEPT !.pc = "w_mkdir", !.filepath = filepath, !.data = data]

\* atomic_io.py:63-70  a call of read_json(filepath)
ReadFrame(filepath) ==
    [IdleFrame EXCEPT !.pc = "r_exists", !.filepath = filepath]

CanFault == faults > 0

\* compute_consensus is not called
NoConsensus == votes = <<>> /\ consensus = NoneVal

\* _get_storage_key is not called
NoKeyed ==
    [pc |-> "none", block_id |-> <<>>, store_key |-> NoneVal, final_key |-> NoneVal,
     passed |-> EmptyDict]

\* admin_panel.py:52-58  the panel before any refresh_data
NoPanel ==
    [pc |-> "none", _all_user_data |-> <<>>, block_ids |-> <<>>, _consensus_rows |-> <<>>,
     final_labels |-> EmptyDict, usernames |-> <<>>, exported_at |-> 0, csv |-> <<>>]

\* __main__.py:11-39  main before session.load_or_create() is called
NoApp ==
    [pc |-> "none", is_admin |-> FALSE, admin_tab |-> FALSE, error_shown |-> FALSE,
     at_start |-> NoneVal]

\* viewer_panel.py:65-72  the ViewerPanel before any block is selected; <<>> is None
NoViewer ==
    [pc |-> "none", _current_block_id |-> <<>>, displayed |-> <<>>, loads |-> {},
     started |-> 0, errored |-> FALSE, recorded |-> NoneVal]

\* tiff_loader.py:31-33  an empty BlockCache and no worker thread
NoCache == [pc |-> "none", _cache |-> <<>>, thr |-> <<>>, used |-> EmptyDict, tick |-> 0]

IOUnchanged == UNCHANGED <<st, clock, votes, consensus, panel, keyed, app, viewer, cache>>

IOQuiet == UNCHANGED <<st, clock, protected, finalWritten, votes, consensus, panel, keyed, app, viewer, cache>>

(***************************************************************************)
(* atomic_write_json, one step per system call.                            *)
(***************************************************************************)
\* a mutant of lines 26-31: no temporary file, the target itself is written
WriteMkdirInPlace(p) ==
    /\ io[p].pc = "w_mkdir"
    /\ next_uuid < MaxUuid
    /\ next_uuid' = next_uuid + 1
    /\ io' = [io EXCEPT ![p].pc = "w_open", ![p].tmp_path = io[p].filepath]
    /\ UNCHANGED <<files, faults, lastWritten>>
    /\ IOQuiet

\* atomic_io.py:26-31  mkdir of the parent, then the name of the temporary file
WriteMkdir(p) ==
    /\ io[p].pc = "w_mkdir"
    /\ next_uuid < MaxUuid
    /\ next_uuid' = next_uuid + 1
    /\ io' = [io EXCEPT ![p].pc = "w_open",
                        ![p].tmp_path = TmpPath(io[p].filepath, next_uuid + 1)]
    /\ UNCHANGED <<files, faults, lastWritten>>
    /\ IOQuiet

\* atomic_io.py:28  mkdir raises: outside the try, nothing to clean up
WriteMkdirFail(p) ==
    /\ io[p].pc = "w_mkdir"
    /\ CanFault
    /\ faults' = faults - 1
    /\ io' = [io EXCEPT ![p].pc = "w_raised", ![p].failed_at = "mkdir"]
    /\ UNCHANGED <<files, next_uuid, lastWritten>>
    /\ IOQuiet

\* atomic_io.py:34  open(tmp_path, "w")
WriteOpen(p) ==
    /\ io[p].pc = "w_open"
    /\ files' = Create(files, io[p].tmp_path)
    /\ io' = [io EXCEPT ![p].pc = "w_dump"]
    /\ UNCHANGED <<next_uuid, faults, lastWritten>>
    /\ IOQuiet

\* atomic_io.py:34  open raises: no temporary file exists
WriteOpenFail(p) ==
    /\ io[p].pc = "w_open"
    /\ CanFault
    /\ faults' = faults - 1
    /\ io' = [io EXCEPT ![p].pc = "w_cleanup", ![p].failed_at = "open"]
    /\ UNCHANGED <<files, next_uuid, lastWritten>>
    /\ IOQuiet

\* atomic_io.py:35-36  json.dump and flush: the whole text is in the file
WriteDump(p) ==
    /\ io[p].pc = "w_dump"
    /\ Exists(io[p].tmp_path)
    /\ files' = [files EXCEPT ![io[p].tmp_path] = File(Serialize(io[p].data), FALSE)]
    /\ io' = [io EXCEPT ![p].pc = "w_fsync"]
    /\ UNCHANGED <<next_uuid, faults, lastWritten>>
    /\ IOQuiet

\* atomic_io.py:35-36  json.dump or flush raises after part of the text
WriteDumpFail(p) ==
    /\ io[p].pc = "w_dump"
    /\ Exists(io[p].tmp_path)
    /\ CanFault
    /\ faults' = faults - 1
    /\ \E part \in Prefixes(Serialize(io[p].data)) :
          files' = [files EXCEPT ![io[p].tmp_path] = File(part, FALSE)]
    /\ io' = [io EXCEPT ![p].pc = "w_cleanup", ![p].failed_at = "dump"]
    /\ UNCHANGED <<next_uuid, lastWritten>>
    /\ IOQuiet

\* a mutant of line 37: the temporary file is renamed without the fsync
WriteFsyncSkipped(p) ==
    /\ io[p].pc = "w_fsync"
    /\ Exists(io[p].tmp_path)
    /\ io' = [io EXCEPT ![p].pc = "w_replace"]
    /\ UNCHANGED <<files, next_uuid, faults, lastWritten>>
    /\ IOQuiet

\* atomic_io.py:37  os.fsync(fh.fileno())
WriteFsync(p) ==
    /\ io[p].pc = "w_fsync"
    /\ Exists(io[p].tmp_path)
    /\ files' = [files EXCEPT ![io[p].tmp_path].synced = TRUE]
    /\ io' = [io EXCEPT ![p].pc = "w_replace"]
    /\ UNCHANGED <<next_uuid, faults, lastWritten>>
    /\ IOQuiet

\* atomic_io.py:37  os.fsync raises
WriteFsyncFail(p) ==
    /\ io[p].pc = "w_fsync"
    /\ CanFault
    /\ faults' = faults - 1
    /\ io' = [io EXCEPT ![p].pc = "w_cleanup", ![p].failed_at = "fsync"]
    /\ UNCHANGED <<files, next_uuid, lastWritten>>
    /\ IOQuiet

\* atomic_io.py:39  os.replace(tmp_path, filepath)
WriteReplace(p) ==
    /\ io[p].pc = "w_replace"
    /\ Exists(io[p].tmp_path)
    /\ files' = Replace(files, io[p].tmp_path, io[p].filepath)
    /\ lastWritten' = [lastWritten EXCEPT ![io[p].filepath] = io[p].data]
    /\ protected' = Protect(protected, st[p])
    /\ finalWritten' = FinalProtect(finalWritten, st[p])
    /\ io' = [io EXCEPT ![p].pc = "w_dirsync"]
    /\ UNCHANGED <<next_uuid, faults>>
    /\ IOUnchanged

\* atomic_io.py:39  os.replace raises
WriteReplaceFail(p) ==
    /\ io[p].pc = "w_replace"
    /\ CanFault
    /\ faults' = faults - 1
    /\ io' = [io EXCEPT ![p].pc = "w_cleanup", ![p].failed_at = "replace"]
    /\ UNCHANGED <<files, next_uuid, lastWritten>>
    /\ IOQuiet

\* atomic_io.py:42-52  fsync of the directory; every OSError here is swallowed,
\* so a failing and a succeeding sync leave the same state
WriteDirSync(p) ==
    /\ io[p].pc = "w_dirsync"
    /\ io' = [io EXCEPT ![p].pc = "w_ok"]
    /\ UNCHANGED <<files, next_uuid, faults, lastWritten>>
    /\ IOQuiet

\* a mutant of lines 54-60: the error is re-raised, the temporary file is left
WriteCleanupNoUnlink(p) ==
    /\ io[p].pc = "w_cleanup"
    /\ io' = [io EXCEPT ![p].pc = "w_raised"]
    /\ UNCHANGED <<files, next_uuid, faults, lastWritten>>
    /\ IOQuiet

\* atomic_io.py:54-60  except Exception: unlink the temporary file, re-raise
WriteCleanup(p) ==
    /\ io[p].pc = "w_cleanup"
    /\ files' = IF Exists(io[p].tmp_path) THEN Remove(files, io[p].tmp_path) ELSE files
    /\ io' = [io EXCEPT ![p].pc = "w_raised"]
    /\ UNCHANGED <<next_uuid, faults, lastWritten>>
    /\ IOQuiet

\* atomic_io.py:56-59  tmp_path.unlink() raises OSError, which is passed over
\* (the call has failed already: what failed it may fail the unlink as well)
WriteCleanupUnlinkFail(p) ==
    /\ io[p].pc = "w_cleanup"
    /\ Exists(io[p].tmp_path)
    /\ io' = [io EXCEPT ![p].pc = "w_raised", ![p].unlink_failed = TRUE]
    /\ UNCHANGED <<files, next_uuid, faults, lastWritten>>
    /\ IOQuiet

(***************************************************************************)
(* read_json, one step per system call.                                    *)
(***************************************************************************)
\* a mutant of lines 78-81: the attempts are not counted
ReadFailUncounted(f, exc) ==
    [f EXCEPT !.last_exc = exc,
              !.slept = IF f.attempt < 2
                        THEN Append(@, BackoffMs * (f.attempt + 1)) ELSE @,
              !.pc = "r_exists"]

\* a mutant of lines 78-85: after the last attempt the error is swallowed
ReadFailSwallowed(f, exc) ==
    [f EXCEPT !.last_exc = exc,
              !.slept = IF f.attempt < 2
                        THEN Append(@, BackoffMs * (f.attempt + 1)) ELSE @,
              !.attempt = f.attempt + 1,
              !.pc = IF f.attempt + 1 < MaxAttempts THEN "r_exists" ELSE "r_none"]

\* atomic_io.py:78-85  the except clause of one attempt, and the raise after
\* the loop when that attempt was the last
ReadFail(f, exc) ==
    [f EXCEPT !.last_exc = exc,
              !.slept = IF f.attempt < 2
                        THEN Append(@, BackoffMs * (f.attempt + 1)) ELSE @,
              !.attempt = f.attempt + 1,
              !.pc = IF f.attempt + 1 < MaxAttempts THEN "r_exists" ELSE "r_raised"]

\* a mutant of lines 74-75: the existence check is missing
ReadExistsUnchecked(p) ==
    /\ io[p].pc = "r_exists"
    /\ io' = [io EXCEPT ![p].pc = "r_open"]
    /\ UNCHANGED <<files, next_uuid, faults, lastWritten>>
    /\ IOQuiet

\* atomic_io.py:74-75  if not filepath.exists(): return None.  exists() tells
\* whether the path is there at the time of the call.
ReadExists(p) ==
    /\ io[p].pc = "r_exists"
    /\ io' = [io EXCEPT ![p].pc = IF Exists(io[p].filepath) THEN "r_open" ELSE "r_none"]
    /\ UNCHANGED <<files, next_uuid, faults, lastWritten>>
    /\ IOQuiet

\* atomic_io.py:76-77  open and json.load: the document, FileNotFoundError
\* (an OSError) or JSONDecodeError
ReadLoad(p) ==
    /\ io[p].pc = "r_open"
    /\ io' = [io EXCEPT ![p] =
          IF ~Exists(io[p].filepath) THEN ReadFail(io[p], "OSError")
          ELSE IF Parse(files[io[p].filepath].data) = DecodeError
               THEN ReadFail(io[p], "JSONDecodeError")
               ELSE [io[p] EXCEPT !.pc = "r_ok",
                                  !.result = Parse(files[io[p].filepath].data)]]
    /\ UNCHANGED <<files, next_uuid, faults, lastWritten>>
    /\ IOQuiet

\* atomic_io.py:76-81  a transient failure of open or of the read (a stale
\* handle, a read racing a remote rename): OSError or JSONDecodeError
ReadLoadFault(p) ==
    /\ io[p].pc = "r_open"
    /\ \E exc \in {"OSError", "JSONDecodeError"} :
          io' = [io EXCEPT ![p] = ReadFail(io[p], exc)]
    /\ UNCHANGED <<files, next_uuid, faults, lastWritten>>
    /\ IOQuiet

\* the process is killed in the middle of a call; what it left stays
Crash(p) ==
    /\ io[p].pc \notin {"idle", "crashed"}
    /\ CanFault
    /\ faults' = faults - 1
    /\ io' = [io EXCEPT ![p].pc = "crashed"]
    /\ UNCHANGED <<files, st, next_uuid, clock, lastWritten, protected, finalWritten,
                 votes, consensus, panel, keyed, app, viewer, cache>>

\* the steps of a write call in which every system call succeeds
WriteStep(p) ==
    \/ WriteMkdir(p) \/ WriteOpen(p) \/ WriteDump(p)
    \/ WriteFsync(p) \/ WriteReplace(p) \/ WriteDirSync(p)

\* the steps of a write call in which a system call fails, and the except clause
WriteFailStep(p) ==
    \/ WriteMkdirFail(p) \/ WriteOpenFail(p) \/ WriteDumpFail(p)
    \/ WriteFsyncFail(p) \/ WriteReplaceFail(p)
    \/ WriteCleanup(p) \/ WriteCleanupUnlinkFail(p)

\* the steps of a read call
ReadStep(p) == ReadExists(p) \/ ReadLoad(p) \/ ReadLoadFault(p)

IOStep(p) == WriteStep(p) \/ WriteFailStep(p) \/ ReadStep(p)

Finished(f) == f.pc \in {"w_ok", "w_raised", "r_none", "r_ok", "r_raised"}

(***************************************************************************)
(* Direct callers of atomic_io (the tests, any other client of the module).*)
(***************************************************************************)
\* the record set_label writes, as a document of its own
LabelledDoc(username, block_id, label, now) ==
    WithLabel(FreshDoc(username, now), GetStorageKey(FALSE, block_id), label, now)

\* the documents handed to atomic_write_json by direct callers
IODocs == {FreshDoc("al", 1), LabelledDoc("al", <<"d", "/", "x">>, 2, 1)}

\* the path they all use
IOPaths == {user_file("al")}

\* a call atomic_write_json(filepath, data)
CallWrite(p) ==
    /\ st[p].phase = "none"
    /\ io[p].pc = "idle"
    /\ next_uuid < MaxUuid
    /\ \E filepath \in IOPaths, data \in IODocs :
          io' = [io EXCEPT ![p] = WriteFrame(filepath, data)]
    /\ UNCHANGED <<files, st, next_uuid, clock, faults, lastWritten, protected, finalWritten,
                 votes, consensus, panel, keyed, app, viewer, cache>>

\* a call read_json(filepath)
CallRead(p) ==
    /\ st[p].phase = "none"
    /\ io[p].pc = "idle"
    /\ \E filepath \in IOPaths :
          io' = [io EXCEPT ![p] = ReadFrame(filepath)]
    /\ UNCHANGED <<files, st, next_uuid, clock, faults, lastWritten, protected, finalWritten,
                 votes, consensus, panel, keyed, app, viewer, cache>>

\* the call is over: its value or its exception has reached the caller
Return(p) ==
    /\ st[p].phase = "none"
    /\ Finished(io[p])
    /\ io' = [io EXCEPT ![p] = IdleFrame]
    /\ UNCHANGED <<files, st, next_uuid, clock, faults, lastWritten, protected, finalWritten,
                 votes, consensus, panel, keyed, app, viewer, cache>>

InitIO ==
    /\ files = EmptyDict
    /\ io = [p \in Procs |-> IdleFrame]
    /\ st = [p \in Procs |-> NoStore]
    /\ next_uuid = 0
    /\ clock = 0
    /\ faults = MaxFaults
    /\ lastWritten = [path \in TargetPaths |-> NoneVal]
    /\ protected = [k \in Users \X StorageKeys |-> 0]
    /\ finalWritten = [k \in StorageKeys |-> 0]
    /\ NoConsensus
    /\ panel = NoPanel
    /\ keyed = NoKeyed
    /\ app = NoApp
    /\ viewer = NoViewer
    /\ cache = NoCache

NextIO ==
    \E p \in Procs :
        CallWrite(p) \/ CallRead(p) \/ Return(p) \/ IOStep(p) \/ Crash(p)

SpecIO == InitIO /\ [][NextIO]_vars

\* Readers next to writers whose system calls succeed.  A process goes on with
\* its read_json call: time.sleep returns, and exists(), open() and json.load()
\* return or raise.
NextRead ==
    \E p \in Procs :
        CallWrite(p) \/ CallRead(p) \/ Return(p) \/ WriteStep(p) \/ ReadStep(p)

SpecReadFair ==
    /\ InitIO
    /\ [][NextRead]_vars
    /\ \A p \in Procs : WF_vars(ReadStep(p))

(***************************************************************************)
(* The operations of AnnotationStore, as a session calls them.  A session  *)
(* is one process: __main__.py builds its UserSession, calls               *)
(* load_or_create and exits when that raises; the window then calls        *)
(* set_label and clear_label on key presses.                               *)
(***************************************************************************)
OtherVarsOfStoreStep ==
    UNCHANGED <<files, next_uuid, faults, lastWritten, finalWritten, votes, consensus, panel, keyed, app, viewer, cache>>

\* annotation_store.py:78-80  load_or_create: raw = read_json(self._filepath)
LoadOrCreate(p) ==
    /\ st[p].phase = "new"
    /\ st[p].op = "none"
    /\ io[p].pc = "idle"
    /\ st' = [st EXCEPT ![p].op = "load_or_create"]
    /\ io' = [io EXCEPT ![p] = ReadFrame(st[p]._filepath)]
    /\ UNCHANGED <<clock, protected>>
    /\ OtherVarsOfStoreStep

\* annotation_store.py:81-88  raw is None: a fresh document, then self._save()
LoadCreate(p) ==
    /\ st[p].op = "load_or_create"
    /\ io[p].pc = "r_none"
    /\ clock < MaxClock
    /\ next_uuid < MaxUuid
    /\ clock' = clock + 1
    /\ st' = [st EXCEPT ![p]._data = FreshDoc(st[p]._username, clock + 1)]
    /\ io' = [io EXCEPT ![p] =
                WriteFrame(st[p]._filepath, FreshDoc(st[p]._username, clock + 1))]
    /\ UNCHANGED protected
    /\ OtherVarsOfStoreStep

\* a mutant of the else branch: the adopted document is saved again
LoadAdoptRewrites(p) ==
    /\ st[p].op = "load_or_create"
    /\ io[p].pc = "r_ok"
    /\ next_uuid < MaxUuid
    /\ st' = [st EXCEPT ![p]._data = io[p].result]
    /\ io' = [io EXCEPT ![p] = WriteFrame(st[p]._filepath, io[p].result)]
    /\ UNCHANGED <<clock, protected>>
    /\ OtherVarsOfStoreStep

\* annotation_store.py:89-90  else: self._data = raw
LoadAdopt(p) ==
    /\ st[p].op = "load_or_create"
    /\ io[p].pc = "r_ok"
    /\ st' = [st EXCEPT ![p]._data = io[p].result, ![p].op = "none",
                        ![p].phase = "loaded", ![p].ret = "ok"]
    /\ io' = [io EXCEPT ![p] = IdleFrame]
    /\ UNCHANGED <<clock, protected>>
    /\ OtherVarsOfStoreStep

\* annotation_store.py:80  read_json raises; __main__.py:40-48 reports it and exits
LoadReadRaised(p) ==
    /\ st[p].op = "load_or_create"
    /\ io[p].pc = "r_raised"
    /\ st' = [st EXCEPT ![p].op = "none", ![p].phase = "exited", ![p].ret = "raised"]
    /\ io' = [io EXCEPT ![p] = IdleFrame]
    /\ UNCHANGED <<clock, protected>>
    /\ OtherVarsOfStoreStep

\* annotation_store.py:102-114  set_label up to the call of self._save()
SetLabel(p) ==
    /\ Ready(p)
    /\ ~st[p]._registry
    /\ clock < MaxClock
    /\ next_uuid < MaxUuid
    /\ clock' = clock + 1
    /\ \E block_id \in BlockIds, label \in Labels :
          LET data == WithLabel(st[p]._data, GetStorageKey(FALSE, block_id),
                                label, clock + 1)
          IN /\ st' = [st EXCEPT ![p]._data = data, ![p].op = "set_label",
                                 ![p].block_id = block_id, ![p].label = label,
                                 ![p].ret = "none"]
             /\ io' = [io EXCEPT ![p] = WriteFrame(st[p]._filepath, data)]
    /\ UNCHANGED protected
    /\ OtherVarsOfStoreStep

\* annotation_store.py:145-155  clear_label of a block that has a record
ClearLabel(p) ==
    /\ Ready(p)
    /\ ~st[p]._registry
    /\ clock < MaxClock
    /\ next_uuid < MaxUuid
    /\ clock' = clock + 1
    /\ \E block_id \in BlockIds :
          LET key == GetStorageKey(FALSE, block_id)
              data == WithoutLabel(st[p]._data, key, clock + 1)
          IN /\ LabelIn(st[p]._data, key) # 0
             /\ st' = [st EXCEPT ![p]._data = data, ![p].op = "clear_label",
                                 ![p].block_id = block_id, ![p].label = 0,
                                 ![p].ret = "none"]
             /\ io' = [io EXCEPT ![p] = WriteFrame(st[p]._filepath, data)]
             /\ protected' = [protected EXCEPT ![<<st[p]._username, key>>] = 0]
    /\ OtherVarsOfStoreStep

\* annotation_store.py:147-149  clear_label of a block without a record: no-op
ClearLabelAbsent(p) ==
    /\ Ready(p)
    /\ ~st[p]._registry
    /\ \E block_id \in BlockIds :
          LET key == GetStorageKey(FALSE, block_id)
          IN /\ LabelIn(st[p]._data, key) = 0
             /\ st' = [st EXCEPT ![p].ret = "ok"]
             /\ protected' = [protected EXCEPT ![<<st[p]._username, key>>] = 0]
    /\ UNCHANGED <<io, clock>>
    /\ OtherVarsOfStoreStep

\* annotation_store.py:66-67  set_label, clear_label or get_label of a store that
\* was given a registry: _get_storage_key raises AttributeError
StorageKeyRaises(p) ==
    /\ Ready(p)
    /\ st[p]._registry
    /\ \E block_id \in BlockIds : GetStorageKey(TRUE, block_id) = AttributeError
    /\ st' = [st EXCEPT ![p].ret = "raised"]
    /\ UNCHANGED <<io, clock, protected>>
    /\ OtherVarsOfStoreStep

\* annotation_store.py:157-158  _save returns: so does the operation
SaveReturns(p) ==
    /\ st[p].op \in {"load_or_create", "set_label", "clear_label"}
    /\ io[p].pc = "w_ok"
    /\ st' = [st EXCEPT ![p].op = "none", ![p].phase = "loaded", ![p].ret = "ok",
                        ![p].block_id = <<>>, ![p].label = 0]
    /\ io' = [io EXCEPT ![p] = IdleFrame]
    /\ UNCHANGED <<clock, protected>>
    /\ OtherVarsOfStoreStep

\* annotation_store.py:157-158  _save raises: the operation passes the error on;
\* from load_or_create it ends the process (__main__.py:40-48)
SaveRaises(p) ==
    /\ st[p].op \in {"load_or_create", "set_label", "clear_label"}
    /\ io[p].pc = "w_raised"
    /\ st' = [st EXCEPT ![p].op = "none", ![p].ret = "raised",
                        ![p].phase = IF st[p].op = "load_or_create" THEN "exited" ELSE @,
                        ![p].block_id = <<>>, ![p].label = 0]
    /\ io' = [io EXCEPT ![p] = IdleFrame]
    /\ UNCHANGED <<clock, protected>>
    /\ OtherVarsOfStoreStep

StoreStep(p) ==
    \/ LoadOrCreate(p) \/ LoadCreate(p) \/ LoadAdopt(p) \/ LoadReadRaised(p)
    \/ SetLabel(p) \/ ClearLabel(p) \/ ClearLabelAbsent(p) \/ StorageKeyRaises(p)
    \/ SaveReturns(p) \/ SaveRaises(p)

Init ==
    /\ files = EmptyDict
    /\ io = [p \in Procs |-> IdleFrame]
    \* sessions are interchangeable: the first is one of "al" without a registry
    /\ \E username \in [Procs -> Users], registry \in [Procs -> BOOLEAN] :
          /\ username[1] = "al"
          /\ ~registry[1]
          /\ st = [p \in Procs |-> NewStore(username[p], registry[p])]
    /\ next_uuid = 0
    /\ clock = 0
    /\ faults = MaxSessionFaults
    /\ lastWritten = [path \in TargetPaths |-> NoneVal]
    /\ protected = [k \in Users \X StorageKeys |-> 0]
    /\ finalWritten = [k \in StorageKeys |-> 0]
    /\ NoConsensus
    /\ panel = NoPanel
    /\ keyed = NoKeyed
    /\ app = NoApp
    /\ viewer = NoViewer
    /\ cache = NoCache

Next == \E p \in Procs : StoreStep(p) \/ IOStep(p)

Spec == Init /\ [][Next]_vars

(***************************************************************************)
(* The operations of FinalLabelStore.  UserSession.load_or_create calls    *)
(* load() (user_session.py:49); the admin panel calls set_final_label and  *)
(* then refresh_data, which calls load() again (admin_panel.py:224-233).   *)
(***************************************************************************)
\* annotation_store.py:175-177  load: raw = read_json(self._filepath)
FinalLoad(p) ==
    /\ Ready(p)
    /\ st' = [st EXCEPT ![p].op = "load", ![p].ret = "none"]
    /\ io' = [io EXCEPT ![p] = ReadFrame(st[p].final_label_store._filepath)]
    /\ UNCHANGED <<clock, protected>>
    /\ OtherVarsOfStoreStep

\* annotation_store.py:178-179  if raw: self._data = raw
FinalLoadReturns(p) ==
    /\ st[p].op = "load"
    /\ io[p].pc \in {"r_none", "r_ok"}
    /\ st' = [st EXCEPT ![p].final_label_store._data =
                            IF Truthy(io[p].result) THEN io[p].result ELSE @,
                        ![p].op = "none", ![p].ret = "ok"]
    /\ io' = [io EXCEPT ![p] = IdleFrame]
    /\ UNCHANGED <<clock, protected>>
    /\ OtherVarsOfStoreStep

\* annotation_store.py:177  read_json raises: so does load
FinalLoadRaises(p) ==
    /\ st[p].op = "load"
    /\ io[p].pc = "r_raised"
    /\ st' = [st EXCEPT ![p].op = "none", ![p].ret = "raised"]
    /\ io' = [io EXCEPT ![p] = IdleFrame]
    /\ UNCHANGED <<clock, protected>>
    /\ OtherVarsOfStoreStep

\* the blocks the admins give final labels to
FinalBlockChoices == {<<"x">>, <<"d", "/", "x">>}

\* a mutant of set_final_label: only the new record is written, not the document
SetFinalLabelWritesRecord(p) ==
    /\ Ready(p)
    /\ ~st[p].final_label_store._registry
    /\ clock < MaxClock
    /\ next_uuid < MaxUuid
    /\ clock' = clock + 1
    /\ \E block_id \in FinalBlockChoices, label \in Labels :
          LET data == WithFinalLabel(st[p].final_label_store._data,
                                     FinalGetStorageKey(FALSE, block_id),
                                     label, st[p]._username, clock + 1)
              record == WithFinalLabel([updated_at |-> 0, labels |-> EmptyDict],
                                       FinalGetStorageKey(FALSE, block_id),
                                       label, st[p]._username, clock + 1)
          IN /\ st' = [st EXCEPT ![p].final_label_store._data = data,
                                 ![p].op = "set_final_label",
                                 ![p].block_id = block_id, ![p].label = label,
                                 ![p].ret = "none"]
             /\ io' = [io EXCEPT ![p] =
                         WriteFrame(st[p].final_label_store._filepath, record)]
    /\ UNCHANGED protected
    /\ OtherVarsOfStoreStep

\* annotation_store.py:199-214  set_final_label up to atomic_write_json
SetFinalLabel(p) ==
    /\ Ready(p)
    /\ ~st[p].final_label_store._registry
    /\ clock < MaxClock
    /\ next_uuid < MaxUuid
    /\ clock' = clock + 1
    /\ \E block_id \in FinalBlockChoices, label \in Labels :
          LET data == WithFinalLabel(st[p].final_label_store._data,
                                     FinalGetStorageKey(FALSE, block_id),
                                     label, st[p]._username, clock + 1)
          IN /\ st' = [st EXCEPT ![p].final_label_store._data = data,
                                 ![p].op = "set_final_label",
                                 ![p].block_id = block_id, ![p].label = label,
                                 ![p].ret = "none"]
             /\ io' = [io EXCEPT ![p] =
                         WriteFrame(st[p].final_label_store._filepath, data)]
    /\ UNCHANGED protected
    /\ OtherVarsOfStoreStep

\* annotation_store.py:186-187  set_final_label or get_final_label of a store
\* that was given a registry: _get_storage_key raises AttributeError
FinalStorageKeyRaises(p) ==
    /\ Ready(p)
    /\ st[p].final_label_store._registry
    /\ \E block_id \in BlockIds : FinalGetStorageKey(TRUE, block_id) = AttributeError
    /\ st' = [st EXCEPT ![p].ret = "raised"]
    /\ UNCHANGED <<io, clock, protected>>
    /\ OtherVarsOfStoreStep

\* annotation_store.py:214  atomic_write_json returns: so does set_final_label
FinalSaveReturns(p) ==
    /\ st[p].op = "set_final_label"
    /\ io[p].pc = "w_ok"
    /\ st' = [st EXCEPT ![p].op = "none", ![p].ret = "ok",
                        ![p].block_id = <<>>, ![p].label = 0]
    /\ io' = [io EXCEPT ![p] = IdleFrame]
    /\ UNCHANGED <<clock, protected>>
    /\ OtherVarsOfStoreStep

\* annotation_store.py:214  atomic_write_json raises: so does set_final_label
FinalSaveRaises(p) ==
    /\ st[p].op = "set_final_label"
    /\ io[p].pc = "w_raised"
    /\ st' = [st EXCEPT ![p].op = "none", ![p].ret = "raised",
                        ![p].block_id = <<>>, ![p].label = 0]
    /\ io' = [io EXCEPT ![p] = IdleFrame]
    /\ UNCHANGED <<clock, protected>>
    /\ OtherVarsOfStoreStep

\* the admins: "al" and "bo"
AdminOf(p) == IF p = TheSession THEN "al" ELSE "bo"

\* Admin sessions whose per-user documents are loaded; the final-labels file
\* does not exist yet and no system call fails.  Sessions are interchangeable:
\* the first has no registry.
InitFinal ==
    /\ files = EmptyDict
    /\ io = [p \in Procs |-> IdleFrame]
    /\ \E registry \in [Procs -> BOOLEAN] :
          /\ ~registry[TheSession]
          /\ st = [p \in Procs |->
                    [NewStore(AdminOf(p), registry[p]) EXCEPT
                        !._data = FreshDoc(AdminOf(p), 0), !.phase = "loaded"]]
    /\ next_uuid = 0
    /\ clock = 0
    /\ faults = 0
    /\ lastWritten = [path \in TargetPaths |-> NoneVal]
    /\ protected = [k \in Users \X StorageKeys |-> 0]
    /\ finalWritten = [k \in StorageKeys |-> 0]
    /\ NoConsensus
    /\ panel = NoPanel
    /\ keyed = NoKeyed
    /\ app = NoApp
    /\ viewer = NoViewer
    /\ cache = NoCache

NextFinal ==
    \E p \in Procs :
        \/ FinalLoad(p) \/ FinalLoadReturns(p)
        \/ SetFinalLabel(p) \/ FinalStorageKeyRaises(p) \/ FinalSaveReturns(p)
        \/ WriteStep(p) \/ ReadExists(p) \/ ReadLoad(p)

SpecFinal == InitFinal /\ [][NextFinal]_vars

(***************************************************************************)
(* One session on its own: the session of "al", without a registry, with   *)
(* its two stores, in a users directory that is empty or holds the         *)
(* document an earlier session of "al" has left.                           *)
(***************************************************************************)
\* the document of the earlier session: one record, for "d/x"
EarlierDoc == LabelledDoc("al", <<"d", "/", "x">>, 1, 0)

InitOne ==
    /\ io = [p \in Procs |-> IdleFrame]
    /\ st = [p \in Procs |-> IF p = TheSession THEN NewStore("al", FALSE) ELSE NoStore]
    /\ next_uuid = 0
    /\ clock = 0
    /\ faults = MaxSessionFaults
    /\ finalWritten = [k \in StorageKeys |-> 0]
    /\ NoConsensus
    /\ panel = NoPanel
    /\ keyed = NoKeyed
    /\ app = NoApp
    /\ viewer = NoViewer
    /\ cache = NoCache
    /\ \/ /\ files = EmptyDict
          /\ lastWritten = [path \in TargetPaths |-> NoneVal]
          /\ protected = [k \in Users \X StorageKeys |-> 0]
       \/ /\ files = (user_file("al") :> File(Serialize(EarlierDoc), TRUE))
          /\ lastWritten = [path \in TargetPaths |->
                              IF path = user_file("al") THEN EarlierDoc ELSE NoneVal]
          /\ protected = [k \in Users \X StorageKeys |->
                            IF k = <<"al", GetStorageKey(FALSE, <<"d", "/", "x">>)>>
                            THEN 1 ELSE 0]

NextOne ==
    \/ LoadOrCreate(TheSession) \/ LoadCreate(TheSession)
    \/ LoadAdopt(TheSession) \/ LoadReadRaised(TheSession)
    \/ SetLabel(TheSession) \/ ClearLabel(TheSession) \/ ClearLabelAbsent(TheSession)
    \/ SaveReturns(TheSession) \/ SaveRaises(TheSession)
    \/ FinalLoad(TheSession) \/ FinalLoadReturns(TheSession)
    \/ FinalLoadRaises(TheSession)
    \/ SetFinalLabel(TheSession)
    \/ FinalSaveReturns(TheSession) \/ FinalSaveRaises(TheSession)
    \/ IOStep(TheSession)

SpecOne == InitOne /\ [][NextOne]_vars

(***************************************************************************)
(* Storage keys: _get_storage_key of both stores on block ids of every     *)
(* shape, and the records set_label, clear_label and set_final_label keep   *)
(* under them.  The write of each call is taken in one step.               *)
(***************************************************************************)

\* the characters of block ids, and the block ids of at most n characters
Chars == {"d", "x", "/"}

AnyBlockIds == UNION {[1..k -> Chars] : k \in 0..MaxIdLen}

\* a mutant of lines 126-129: the block id is put together without the "/"
all_annotations_unseparated(s) ==
    LET annotations == Get(s._data, "annotations", EmptyDict)
        flat == UNION {{<<parent_path \o block_name, annotations[parent_path][block_name]>>
                        : block_name \in DOMAIN annotations[parent_path]}
                       : parent_path \in DOMAIN annotations}
    IN [block_id \in {item[1] : item \in flat} |->
            (CHOOSE item \in flat : item[1] = block_id)[2]]

\* annotation_store.py:116-131  all_annotations(): block id -> record
all_annotations(s) ==
    LET annotations == Get(s._data, "annotations", EmptyDict)
        flat == UNION {{<<IF parent_path # <<>> THEN parent_path \o <<"/">> \o block_name
                                               ELSE block_name,
                          annotations[parent_path][block_name]>>
                        : block_name \in DOMAIN annotations[parent_path]}
                       : parent_path \in DOMAIN annotations}
    IN [block_id \in {item[1] : item \in flat} |->
            (CHOOSE item \in flat : item[1] = block_id)[2]]

\* the file of a path after a write that met no fault
Written(fs, path, data) == (path :> File(Serialize(data), TRUE)) @@ fs

KeysUnchanged ==
    UNCHANGED <<io, next_uuid, faults, lastWritten, protected, finalWritten,
                votes, consensus, panel, app, viewer, cache>>

\* annotation_store.py:60-76, 181-197  _get_storage_key(block_id) of both stores
GetStorageKeyCall(p) ==
    /\ Ready(p)
    /\ keyed.pc = "none"
    /\ \E block_id \in AnyBlockIds :
          keyed' = [keyed EXCEPT !.pc = "keyed", !.block_id = block_id,
                                 !.store_key = GetStorageKey(st[p]._registry, block_id),
                                 !.final_key =
                                     FinalGetStorageKey(st[p].final_label_store._registry,
                                                        block_id)]
    /\ UNCHANGED <<files, st, clock>>
    /\ KeysUnchanged

\* annotation_store.py:102-114  set_label(block_id, label)
SetLabelAtOnce(p) ==
    /\ Ready(p)
    /\ keyed.pc \in {"none", "stored"}
    /\ clock < MaxKeyCalls
    /\ clock' = clock + 1
    /\ \E block_id \in AnyBlockIds, label \in Labels :
          LET data == WithLabel(st[p]._data, GetStorageKey(st[p]._registry, block_id),
                                label, clock + 1)
          IN /\ st' = [st EXCEPT ![p]._data = data, ![p].ret = "ok"]
             /\ files' = Written(files, st[p]._filepath, data)
             /\ keyed' = [keyed EXCEPT !.pc = "stored", !.block_id = block_id,
                                       !.passed = Put(keyed.passed, block_id, label)]
    /\ KeysUnchanged

\* annotation_store.py:145-155  clear_label(block_id)
ClearLabelAtOnce(p) ==
    /\ Ready(p)
    /\ keyed.pc = "stored"
    /\ clock < MaxKeyCalls
    /\ clock' = clock + 1
    /\ \E block_id \in AnyBlockIds :
          LET key == GetStorageKey(st[p]._registry, block_id)
              data == WithoutLabel(st[p]._data, key, clock + 1)
          IN /\ LabelIn(st[p]._data, key) # 0
             /\ st' = [st EXCEPT ![p]._data = data, ![p].ret = "ok"]
             /\ files' = Written(files, st[p]._filepath, data)
             /\ keyed' = [keyed EXCEPT !.block_id = block_id,
                                       !.passed = Del(keyed.passed, block_id)]
    /\ KeysUnchanged

\* annotation_store.py:199-214  set_final_label(block_id, label, admin_username)
SetFinalLabelAtOnce(p) ==
    /\ Ready(p)
    /\ keyed.pc \in {"none", "stored"}
    /\ clock < MaxKeyCalls
    /\ clock' = clock + 1
    /\ \E block_id \in AnyBlockIds, label \in Labels :
          LET data == WithFinalLabel(st[p].final_label_store._data,
                                     FinalGetStorageKey(st[p].final_label_store._registry,
                                                        block_id),
                                     label, st[p]._username, clock + 1)
          IN /\ st' = [st EXCEPT ![p].final_label_store._data = data, ![p].ret = "ok"]
             /\ files' = Written(files, st[p].final_label_store._filepath, data)
             /\ keyed' = [keyed EXCEPT !.pc = "stored", !.block_id = block_id]
    /\ KeysUnchanged

\* a loaded session without a registry, its document on disk
InitKeys ==
    /\ files = (user_file("al") :> File(Serialize(FreshDoc("al", 0)), TRUE))
    /\ io = [p \in Procs |-> IdleFrame]
    /\ st = [p \in Procs |->
                IF p = TheSession
                THEN [NewStore("al", FALSE) EXCEPT !._data = FreshDoc("al", 0),
                                                   !.phase = "loaded"]
                ELSE NoStore]
    /\ next_uuid = 0
    /\ clock = 0
    /\ faults = 0
    /\ lastWritten = [path \in TargetPaths |-> NoneVal]
    /\ protected = [k \in Users \X StorageKeys |-> 0]
    /\ finalWritten = [k \in StorageKeys |-> 0]
    /\ NoConsensus
    /\ panel = NoPanel
    /\ keyed = NoKeyed
    /\ app = NoApp
    /\ viewer = NoViewer
    /\ cache = NoCache

NextKeys ==
    \E p \in Procs :
        \/ GetStorageKeyCall(p) \/ SetLabelAtOnce(p) \/ ClearLabelAtOnce(p)
        \/ SetFinalLabelAtOnce(p)

SpecKeys == InitKeys /\ [][NextKeys]_vars

(***************************************************************************)
(* compute_consensus (utils/consensus.py), a pure function of a list of    *)
(* labels; 0 stands for None.                                              *)
(***************************************************************************)

\* a mutant of line 24: None is counted as a vote
ValidKeepsNone(labels) == labels

\* consensus.py:24  valid = [lbl for lbl in labels if lbl is not None]
Valid(labels) == SelectSeq(labels, LAMBDA lbl : lbl # 0)

\* consensus.py:28  Counter(valid): label -> number of occurrences
Counter(valid) ==
    [lbl \in {valid[i] : i \in DOMAIN valid} |->
        Cardinality({i \in DOMAIN valid : valid[i] = lbl})]

\* consensus.py:31  counter.most_common(1)[0][1]
MaxCount(counter) ==
    CHOOSE cnt \in {counter[lbl] : lbl \in DOMAIN counter} :
        \A lbl \in DOMAIN counter : counter[lbl] <= cnt

\* a mutant of lines 33-34: the largest leader wins a tie
Largest(leaders) == CHOOSE lbl \in leaders : \A other \in leaders : lbl >= other

\* consensus.py:33-34  sorted(leaders)[0]
Smallest(leaders) == CHOOSE lbl \in leaders : \A other \in leaders : lbl <= other

\* consensus.py:7-36  (consensus_label, has_disagreement)
compute_consensus(labels) ==
    LET valid == Valid(labels)
    IN IF valid = <<>>
       THEN [consensus_label |-> 0, has_disagreement |-> FALSE]
       ELSE LET counter == Counter(valid)
                max_count == MaxCount(counter)
                leaders == {lbl \in DOMAIN counter : counter[lbl] = max_count}
            IN [consensus_label |-> Smallest(leaders),
                has_disagreement |-> Cardinality(DOMAIN counter) > 1]

\* the lists of labels of at most n entries, None among them
VoteLists(n) == UNION {[1..k -> 0..MaxLabel] : k \in 0..n}

\* a call compute_consensus(votes)
ComputeConsensus ==
    /\ consensus = NoneVal
    /\ consensus' = compute_consensus(votes)
    /\ UNCHANGED <<files, io, st, next_uuid, clock, faults, lastWritten, protected,
                   finalWritten, votes, panel, keyed, app, viewer, cache>>

InitConsensus ==
    /\ files = EmptyDict
    /\ io = [p \in Procs |-> IdleFrame]
    /\ st = [p \in Procs |-> NoStore]
    /\ next_uuid = 0
    /\ clock = 0
    /\ faults = 0
    /\ lastWritten = [path \in TargetPaths |-> NoneVal]
    /\ protected = [k \in Users \X StorageKeys |-> 0]
    /\ finalWritten = [k \in StorageKeys |-> 0]
    /\ votes \in VoteLists(MaxVotes)
    /\ consensus = NoneVal
    /\ panel = NoPanel
    /\ keyed = NoKeyed
    /\ app = NoApp
    /\ viewer = NoViewer
    /\ cache = NoCache

NextConsensus == ComputeConsensus

SpecConsensus == InitConsensus /\ [][NextConsensus]_vars

(***************************************************************************)
(* build_consensus_table (utils/consensus.py).  A dict is a sequence of    *)
(* <<key, value>> pairs in insertion order where the order is iterated,    *)
(* and a function where it is only looked up.                              *)
(***************************************************************************)

\* dict.get(key, absent): the value a dict in insertion order holds for a key, absent when it has none
Lookup(d, key, absent) ==
    IF \E i \in DOMAIN d : d[i][1] = key
    THEN d[CHOOSE i \in DOMAIN d : d[i][1] = key][2]
    ELSE absent

\* the values of a dict, in insertion order
Values(d) == [i \in DOMAIN d |-> d[i][2]]

\* a mutant of line 64: user_labels is assigned, not added to
UserLabelsOfLastOnly(all_user_annotations, block_id) ==
    LET kept == SelectSeq(all_user_annotations,
                          LAMBDA item : Truthy(Get(item[2], block_id, NoneVal)))
    IN IF kept = <<>> THEN <<>>
       ELSE <<<<kept[Len(kept)][1], Get(kept[Len(kept)][2][block_id], "label", 0)>>>>

\* consensus.py:60-64  the user_labels of one block
UserLabelsOf(all_user_annotations, block_id) ==
    LET kept == SelectSeq(all_user_annotations,
                          LAMBDA item : Truthy(Get(item[2], block_id, NoneVal)))
    IN [i \in DOMAIN kept |-> <<kept[i][1], Get(kept[i][2][block_id], "label", 0)>>]

\* consensus.py:59-74  the row of one block
RowOf(all_user_annotations, block_id) ==
    LET user_labels == UserLabelsOf(all_user_annotations, block_id)
        result == compute_consensus(Values(user_labels))
    IN [block_id |-> block_id, user_labels |-> user_labels,
        consensus |-> result.consensus_label, disagreement |-> result.has_disagreement]

\* a mutant of the loop: blocks that nobody has annotated get no row
build_consensus_table_annotated_only(all_user_annotations, block_ids) ==
    SelectSeq([i \in DOMAIN block_ids |-> RowOf(all_user_annotations, block_ids[i])],
              LAMBDA row : row.user_labels # <<>>)

\* consensus.py:39-75
build_consensus_table(all_user_annotations, block_ids) ==
    [i \in DOMAIN block_ids |-> RowOf(all_user_annotations, block_ids[i])]

\* the block ids of the table, and the records a user's mapping may hold for
\* one: an empty record, a record without a label, a record with a label
TableBlocks == {<<"x">>, <<"d", "/", "x">>}

Entries ==
    {EmptyDict, [annotated_at |-> 1]} \cup {[label |-> l, annotated_at |-> 1] : l \in Labels}

AnnotationMaps == UNION {[B -> Entries] : B \in SUBSET TableBlocks}

\* the orders in which the users mapping may iterate
UserOrders ==
    {q \in UNION {[1..k -> Users] : k \in 0..Cardinality(Users)} :
        \A i, j \in DOMAIN q : i # j => q[i] # q[j]}

UserData ==
    UNION {{[i \in DOMAIN q |-> <<q[i], a[i]>>] : a \in [DOMAIN q -> AnnotationMaps]}
           : q \in UserOrders}

BlockIdLists == UNION {[1..k -> TableBlocks] : k \in 0..MaxRows}

PanelUnchanged ==
    UNCHANGED <<files, io, st, next_uuid, clock, faults, lastWritten, protected,
                finalWritten, votes, consensus, keyed, app, viewer, cache>>

\* admin_panel.py:143-145  self._consensus_rows = build_consensus_table(...)
BuildConsensusTable ==
    /\ panel.pc = "loaded"
    /\ panel' = [panel EXCEPT !.pc = "built",
                              !._consensus_rows =
                                  build_consensus_table(panel._all_user_data, panel.block_ids)]
    /\ PanelUnchanged

(***************************************************************************)
(* export_csv (utils/csv_exporter.py).  The file is the sequence of the    *)
(* rows written, the header first; a row is the sequence of its cells and  *)
(* a cell is the text csv.DictWriter writes for the value.                 *)
(***************************************************************************)

\* the usernames in the order of sorted()
NameOrder == <<"al", "bo">>

\* a mutant of line 36: the usernames are taken in the order given
Unsorted(usernames) == usernames

\* csv_exporter.py:36  sorted(usernames)
Sorted(usernames) ==
    LET upto[i \in 0..Len(NameOrder)] ==
            IF i = 0 THEN <<>>
            ELSE upto[i - 1] \o SelectSeq(usernames, LAMBDA u : u = NameOrder[i])
    IN upto[Len(NameOrder)]

\* str() of a label
Digits == <<"0", "1", "2", "3", "4", "5", "6", "7", "8", "9">>

\* the text the csv writer writes for a label or None
LabelCell(label) == IF label = 0 THEN "" ELSE Digits[label + 1]

\* the text the csv writer writes for a bool
BoolCell(b) == IF b THEN "True" ELSE "False"

\* csv_exporter.py:37-41  fieldnames; a name is the sequence of its parts
Fieldnames(sorted_users) ==
    <<<<"block_id">>, <<"consensus_label">>, <<"final_label">>, <<"has_disagreement">>>>
    \o [i \in DOMAIN sorted_users |-> <<"user_", sorted_users[i], "_label">>]
    \o <<<<"exported_at">>>>

\* csv_exporter.py:49-60  the row written for one consensus row
CsvRow(row, final_labels, sorted_users, exported_at) ==
    LET fl_entry == Get(final_labels, row.block_id, EmptyDict)
    IN <<row.block_id, LabelCell(row.consensus),
         LabelCell(Get(fl_entry, "final_label", 0)), BoolCell(row.disagreement)>>
       \o [i \in DOMAIN sorted_users |->
               LabelCell(Lookup(row.user_labels, sorted_users[i], 0))]
       \o <<exported_at>>

\* csv_exporter.py:33-60
export_csv(consensus_rows, final_labels, usernames, exported_at) ==
    <<Fieldnames(Sorted(usernames))>>
    \o [i \in DOMAIN consensus_rows |->
            CsvRow(consensus_rows[i], final_labels, Sorted(usernames), exported_at)]

\* what all_labels() may return for the blocks of the table
FinalLabelMaps ==
    UNION {[B -> {[final_label |-> l, set_by |-> "al", set_at |-> 1] : l \in Labels}]
           : B \in SUBSET TableBlocks}

\* the lists of usernames: the keys of a users mapping, in its order
UsernameLists == UserOrders

\* admin_panel.py:244-249  export_csv(...), called with the rows of the panel
ExportCsv ==
    /\ panel.pc = "built"
    /\ clock < MaxClock
    /\ clock' = clock + 1
    /\ \E final_labels \in FinalLabelMaps, usernames \in UsernameLists :
          panel' = [panel EXCEPT !.pc = "exported",
                                 !.final_labels = final_labels,
                                 !.usernames = usernames,
                                 !.exported_at = clock + 1,
                                 !.csv = export_csv(panel._consensus_rows, final_labels,
                                                    usernames, clock + 1)]
    /\ UNCHANGED <<files, io, st, next_uuid, faults, lastWritten, protected,
                   finalWritten, votes, consensus, keyed, app, viewer, cache>>

(***************************************************************************)
(* AdminPanel.refresh_data and AdminPanel._export_csv (gui/admin_panel.py) *)
(* on the files the sessions have written.                                 *)
(***************************************************************************)

\* block_registry.py:41-54  all_blocks(): the names of the block directories,
\* sorted; a name has no "/"
RegistryBlocks == <<<<"x">>, <<"y">>>>

\* annotation_store.py:226-241  all_labels(): block id -> record
all_labels(fs) ==
    LET labels == Get(fs._data, "labels", EmptyDict)
        flat == UNION {{<<IF parent_path # <<>> THEN parent_path \o <<"/">> \o block_name
                                               ELSE block_name,
                          labels[parent_path][block_name]>>
                        : block_name \in DOMAIN labels[parent_path]}
                       : parent_path \in DOMAIN labels}
    IN [block_id \in {item[1] : item \in flat} |->
            (CHOOSE item \in flat : item[1] = block_id)[2]]

\* admin_panel.py:132-138  self._all_user_data: for every file of the users
\* directory, in the order of the names, username -> data["annotations"]
AllUserData(fs) ==
    LET named == SelectSeq(NameOrder, LAMBDA u : user_file(u) \in DOMAIN fs)
        data(u) == DiskDoc(fs, user_file(u))
        kept == SelectSeq(named, LAMBDA u : /\ IsDoc(data(u)) /\ Truthy(data(u))
                                            /\ "annotations" \in DOMAIN data(u))
    IN [i \in DOMAIN kept |-> <<data(kept[i]).username, data(kept[i]).annotations>>]

\* admin_panel.py:130-147  refresh_data
RefreshData(p) ==
    /\ Ready(p)
    /\ panel.pc = "none"
    /\ LET raw == DiskDoc(files, st[p].final_label_store._filepath)
       IN st' = [st EXCEPT ![p].final_label_store._data = IF Truthy(raw) THEN raw ELSE @]
    /\ panel' = [panel EXCEPT !.pc = "built",
                              !._all_user_data = AllUserData(files),
                              !.block_ids = RegistryBlocks,
                              !._consensus_rows =
                                  build_consensus_table(AllUserData(files), RegistryBlocks)]
    /\ UNCHANGED <<files, io, next_uuid, clock, faults, lastWritten, protected,
                   finalWritten, votes, consensus, keyed, app, viewer, cache>>

\* admin_panel.py:235-249  _export_csv
AdminExportCsv(p) ==
    /\ Ready(p)
    /\ panel.pc = "built"
    /\ clock < MaxClock
    /\ clock' = clock + 1
    /\ LET final_labels == all_labels(st[p].final_label_store)
           usernames == [i \in DOMAIN panel._all_user_data |-> panel._all_user_data[i][1]]
       IN panel' = [panel EXCEPT !.pc = "exported",
                                 !.final_labels = final_labels,
                                 !.usernames = usernames,
                                 !.exported_at = clock + 1,
                                 !.csv = export_csv(panel._consensus_rows, final_labels,
                                                    usernames, clock + 1)]
    /\ UNCHANGED <<files, io, st, next_uuid, faults, lastWritten, protected,
                   finalWritten, votes, consensus, keyed, app, viewer, cache>>

\* the document of a user who has called set_label(b, lab[b]) for the blocks of lab
DocWithLabels(username, lab) ==
    LET blocks == SelectSeq(RegistryBlocks, LAMBDA b : b \in DOMAIN lab)
        upto[i \in 0..Len(blocks)] ==
            IF i = 0 THEN FreshDoc(username, 1)
            ELSE WithLabel(upto[i - 1], GetStorageKey(FALSE, blocks[i]), lab[blocks[i]], 1)
    IN upto[Len(blocks)]

\* the final-labels document after set_final_label(b, lab[b], "al") for the blocks of lab
FinalDocWithLabels(lab) ==
    LET blocks == SelectSeq(RegistryBlocks, LAMBDA b : b \in DOMAIN lab)
        upto[i \in 0..Len(blocks)] ==
            IF i = 0 THEN NewFinalStore(FALSE, 1)._data
            ELSE WithFinalLabel(upto[i - 1], FinalGetStorageKey(FALSE, blocks[i]),
                                lab[blocks[i]], "al", 1)
    IN upto[Len(blocks)]

\* the labels given to some of the blocks of the registry
Labellings ==
    UNION {[B -> Labels] : B \in SUBSET {RegistryBlocks[i] : i \in DOMAIN RegistryBlocks}}

\* the files the sessions may have left: for each user no file or a document,
\* and no final-labels file or a document with final labels
InitAdmin ==
    /\ io = [p \in Procs |-> IdleFrame]
    /\ st = [p \in Procs |->
                IF p = TheSession
                THEN [NewStore("al", FALSE) EXCEPT !._data = FreshDoc("al", 0),
                                                   !.phase = "loaded"]
                ELSE NoStore]
    /\ next_uuid = 0
    /\ clock = 0
    /\ faults = 0
    /\ lastWritten = [path \in TargetPaths |-> NoneVal]
    /\ protected = [k \in Users \X StorageKeys |-> 0]
    /\ finalWritten = [k \in StorageKeys |-> 0]
    /\ NoConsensus
    /\ panel = NoPanel
    /\ keyed = NoKeyed
    /\ app = NoApp
    /\ viewer = NoViewer
    /\ cache = NoCache
    /\ \E present \in SUBSET TargetPaths, lab \in [TargetPaths -> Labellings] :
          /\ \A path \in TargetPaths \ present : lab[path] = EmptyDict
          /\ files = [path \in present |->
                        File(Serialize(IF path = final_labels_file
                                       THEN FinalDocWithLabels(lab[path])
                                       ELSE DocWithLabels(path.stem, lab[path])), TRUE)]

NextAdmin == \E p \in Procs : RefreshData(p) \/ AdminExportCsv(p)

SpecAdmin == InitAdmin /\ [][NextAdmin]_vars

(***************************************************************************)
(* Startup of one session: __main__.main calls UserSession.load_or_create, *)
(* which loads the user's document, the final labels and the roles in this *)
(* order; main reports an exception and exits, or opens the main window,   *)
(* which has the admin tab for an admin only.                              *)
(***************************************************************************)
StartupPcs == {"store", "final", "roles"}

AppUnchanged ==
    UNCHANGED <<files, next_uuid, faults, lastWritten, protected, finalWritten,
                votes, consensus, panel, keyed, viewer, cache>>

\* user_session.py:49  self.final_label_store.load(), after store.load_or_create()
StartFinalLoad(p) ==
    /\ app.pc = "store"
    /\ Ready(p)
    /\ st[p].ret = "ok"
    /\ st' = [st EXCEPT ![p].op = "load", ![p].ret = "none"]
    /\ io' = [io EXCEPT ![p] = ReadFrame(st[p].final_label_store._filepath)]
    /\ app' = [app EXCEPT !.pc = "final"]
    /\ UNCHANGED clock
    /\ AppUnchanged

\* user_session.py:50-53  _check_admin: roles = read_json(self.config.roles_file)
CheckAdmin(p) ==
    /\ app.pc = "final"
    /\ Ready(p)
    /\ st[p].ret = "ok"
    /\ st' = [st EXCEPT ![p].op = "_check_admin", ![p].ret = "none"]
    /\ io' = [io EXCEPT ![p] = ReadFrame(roles_file)]
    /\ app' = [app EXCEPT !.pc = "roles"]
    /\ UNCHANGED clock
    /\ AppUnchanged

\* a mutant of lines 54-56: whoever has a roles file is an admin
IsListedAnyone(roles, username) == Truthy(roles)

\* user_session.py:54-56  not roles: False; else username in roles.get("admins", [])
IsListed(roles, username) ==
    Truthy(roles) /\ username \in Get(roles, "admins", {})

\* user_session.py:50-56  _check_admin returns and is_admin is set
CheckAdminReturns(p) ==
    /\ st[p].op = "_check_admin"
    /\ io[p].pc \in {"r_none", "r_ok"}
    /\ st' = [st EXCEPT ![p].op = "none", ![p].ret = "ok"]
    /\ io' = [io EXCEPT ![p] = IdleFrame]
    /\ app' = [app EXCEPT !.is_admin = IsListed(io[p].result, st[p]._username)]
    /\ UNCHANGED clock
    /\ AppUnchanged

\* user_session.py:53  read_json raises: so do _check_admin and load_or_create
CheckAdminRaises(p) ==
    /\ st[p].op = "_check_admin"
    /\ io[p].pc = "r_raised"
    /\ st' = [st EXCEPT ![p].op = "none", ![p].ret = "raised"]
    /\ io' = [io EXCEPT ![p] = IdleFrame]
    /\ UNCHANGED <<clock, app>>
    /\ AppUnchanged

\* __main__.py:42-48  except Exception: QMessageBox.critical(...); sys.exit(1)
StartupAborts(p) ==
    /\ app.pc \in StartupPcs
    /\ st[p].op = "none"
    /\ io[p].pc = "idle"
    /\ st[p].ret = "raised"
    /\ app' = [app EXCEPT !.pc = "exited", !.error_shown = TRUE]
    /\ st' = [st EXCEPT ![p].phase = "exited"]
    /\ UNCHANGED <<io, clock>>
    /\ AppUnchanged

\* __main__.py:51-52, main_window.py:140-149  the window, with the admin tab
\* if self._session.is_admin
OpenWindow(p) ==
    /\ app.pc = "roles"
    /\ Ready(p)
    /\ st[p].ret = "ok"
    /\ app' = [app EXCEPT !.pc = "window", !.admin_tab = app.is_admin]
    /\ UNCHANGED <<io, st, clock>>
    /\ AppUnchanged

\* main_window.py:209-216  a label key: _annotate calls store.set_label
WindowSetLabel(p) ==
    /\ app.pc = "window"
    /\ SetLabel(p)

\* admin_panel.py:112, 224-232  the button of the admin tab: _set_final_label
AdminSetFinalLabel(p) ==
    /\ app.pc = "window"
    /\ app.admin_tab
    /\ SetFinalLabel(p)

\* the roles files: none, {}, and lists of admins
RolesDocs == {EmptyDict} \cup {[admins |-> A] : A \in SUBSET Users}

InitStartup ==
    /\ io = [p \in Procs |-> IdleFrame]
    /\ next_uuid = 0
    /\ clock = 0
    /\ faults = MaxSessionFaults
    /\ lastWritten = [path \in TargetPaths |-> NoneVal]
    /\ protected = [k \in Users \X StorageKeys |-> 0]
    /\ finalWritten = [k \in StorageKeys |-> 0]
    /\ NoConsensus
    /\ panel = NoPanel
    /\ keyed = NoKeyed
    /\ viewer = NoViewer
    /\ cache = NoCache
    /\ \E username \in Users, present \in SUBSET {"user", "final", "roles"},
          roles \in RolesDocs :
          /\ st = [p \in Procs |->
                     IF p = TheSession THEN NewStore(username, FALSE) ELSE NoStore]
          /\ "roles" \notin present => roles = EmptyDict
          /\ files =
               [path \in (IF "user" \in present THEN {user_file(username)} ELSE {})
                         \cup (IF "final" \in present THEN {final_labels_file} ELSE {})
                         \cup (IF "roles" \in present THEN {roles_file} ELSE {}) |->
                   File(Serialize(
                          IF path = roles_file THEN roles
                          ELSE IF path = final_labels_file
                               THEN FinalDocWithLabels(<<"x">> :> 1)
                               ELSE LabelledDoc(username, <<"d", "/", "x">>, 1, 0)),
                        TRUE)]
          /\ app = [NoApp EXCEPT !.pc = "store",
                                 !.at_start =
                                     IF "user" \in present
                                     THEN File(Serialize(LabelledDoc(username,
                                                             <<"d", "/", "x">>, 1, 0)),
                                               TRUE)
                                     ELSE NoneVal]

NextStartup ==
    \/ LoadOrCreate(TheSession) \/ LoadCreate(TheSession)
    \/ LoadAdopt(TheSession) \/ LoadReadRaised(TheSession)
    \/ SaveReturns(TheSession) \/ SaveRaises(TheSession)
    \/ StartFinalLoad(TheSession) \/ FinalLoadReturns(TheSession)
    \/ FinalLoadRaises(TheSession)
    \/ CheckAdmin(TheSession) \/ CheckAdminReturns(TheSession)
    \/ CheckAdminRaises(TheSession)
    \/ StartupAborts(TheSession) \/ OpenWindow(TheSession)
    \/ WindowSetLabel(TheSession) \/ AdminSetFinalLabel(TheSession)
    \/ FinalSaveReturns(TheSession) \/ FinalSaveRaises(TheSession)
    \/ IOStep(TheSession)

SpecStartup == InitStartup /\ [][NextStartup]_vars

(***************************************************************************)
(* The viewer: a selection in the block list starts a load worker, whose   *)
(* result the main thread displays when the worker returns; label keys are *)
(* recorded against current_block_id.  The workers finish in any order.    *)
(***************************************************************************)
ViewerUnchanged ==
    UNCHANGED <<files, io, st, next_uuid, clock, faults, lastWritten, protected,
                finalWritten, votes, consensus, panel, keyed, app, cache>>

\* viewer_panel.py:258-260, 267-286  _display_block(block_id, arrays): the
\* layers are replaced by those of block_id
Display(v, block_id) == block_id

\* main_window.py:201-205, viewer_panel.py:187-199  _on_block_selected, load_block
LoadBlock ==
    /\ viewer.pc = "open"
    /\ viewer.started < MaxLoads
    /\ \E i \in DOMAIN RegistryBlocks :
          viewer' = [viewer EXCEPT
                        !._current_block_id = RegistryBlocks[i],
                        !.started = viewer.started + 1,
                        !.loads = viewer.loads
                                  \cup {[id |-> viewer.started + 1,
                                         block_id |-> RegistryBlocks[i]]}]
    /\ ViewerUnchanged

\* viewer_panel.py:197, 258-261  worker.returned: _on_block_loaded
OnBlockLoaded ==
    /\ viewer.pc = "open"
    /\ \E w \in viewer.loads :
          viewer' = [viewer EXCEPT !.displayed = Display(viewer, w.block_id),
                                   !.loads = viewer.loads \ {w}]
    /\ ViewerUnchanged

\* viewer_panel.py:198, 263-265  worker.errored: _on_load_error
OnLoadError ==
    /\ viewer.pc = "open"
    /\ \E w \in viewer.loads :
          viewer' = [viewer EXCEPT !.loads = viewer.loads \ {w}, !.errored = TRUE]
    /\ ViewerUnchanged

\* main_window.py:209-216  _annotate(label): set_label(current_block_id, label)
Annotate ==
    /\ viewer.pc = "open"
    /\ viewer._current_block_id # <<>>
    /\ \E label \in Labels :
          viewer' = [viewer EXCEPT !.recorded =
                        [op |-> "set_label", block_id |-> viewer._current_block_id,
                         label |-> label, shown |-> viewer.displayed,
                         loading |-> viewer.loads # {}, errored |-> viewer.errored]]
    /\ ViewerUnchanged

\* main_window.py:234-239  _undo_annotation: clear_label(current_block_id)
UndoAnnotation ==
    /\ viewer.pc = "open"
    /\ viewer._current_block_id # <<>>
    /\ viewer' = [viewer EXCEPT !.recorded =
                     [op |-> "clear_label", block_id |-> viewer._current_block_id,
                      label |-> 0, shown |-> viewer.displayed,
                      loading |-> viewer.loads # {}, errored |-> viewer.errored]]
    /\ ViewerUnchanged

InitViewer ==
    /\ files = EmptyDict
    /\ io = [p \in Procs |-> IdleFrame]
    /\ st = [p \in Procs |-> NoStore]
    /\ next_uuid = 0
    /\ clock = 0
    /\ faults = 0
    /\ lastWritten = [path \in TargetPaths |-> NoneVal]
    /\ protected = [k \in Users \X StorageKeys |-> 0]
    /\ finalWritten = [k \in StorageKeys |-> 0]
    /\ NoConsensus
    /\ panel = NoPanel
    /\ keyed = NoKeyed
    /\ app = NoApp
    /\ viewer = [NoViewer EXCEPT !.pc = "open"]
    /\ cache = NoCache

NextViewer == LoadBlock \/ OnBlockLoaded \/ OnLoadError \/ Annotate \/ UndoAnnotation

SpecViewer == InitViewer /\ [][NextViewer]_vars

(***************************************************************************)
(* The BlockCache and the worker threads.  load_block_worker and           *)
(* preload_block_worker run in background threads and call get and put on  *)
(* the cache of the viewer; a thread can be interrupted between any two    *)
(* statements of get and put, each OrderedDict operation being atomic.     *)
(***************************************************************************)
\* viewer_panel.py:71  BlockCache(max_size=config.max_cached_blocks)
max_size == MaxCached

CacheBlocks == {"a", "b", "c"}

\* thread 1 is a load worker, thread 2 a preload worker
Threads == {1, 2}

Cached(block_id) == \E k \in DOMAIN cache._cache : cache._cache[k] = block_id

\* OrderedDict.move_to_end(block_id)
MoveToEnd(od, block_id) == SelectSeq(od, LAMBDA b : b # block_id) \o <<block_id>>

CacheUnchanged ==
    UNCHANGED <<files, io, st, next_uuid, clock, faults, lastWritten, protected,
                finalWritten, votes, consensus, panel, keyed, app, viewer>>

\* the use of block_id at this moment
Touch(block_id) == (block_id :> cache.tick + 1) @@ cache.used

\* tiff_loader.py:80, 109-110  the worker takes its next block and calls get;
\* tiff_loader.py:82  the load worker returns after a hit
WorkerNext(t) ==
    /\ cache.thr[t].pc = "next"
    /\ cache.thr[t].todo # <<>>
    /\ cache' = [cache EXCEPT !.thr[t] = [pc |-> "get_in",
                                          block_id |-> Head(cache.thr[t].todo),
                                          todo |-> Tail(cache.thr[t].todo)]]
    /\ CacheUnchanged

\* tiff_loader.py:37, 40  get: if block_id in self._cache, else return None; the
\* worker then reads the files (tiff_loader.py:84-88, 112-115) and calls put
GetContains(t) ==
    /\ cache.thr[t].pc = "get_in"
    /\ cache' = [cache EXCEPT !.thr[t].pc =
                    IF Cached(cache.thr[t].block_id) THEN "get_move" ELSE "put_in"]
    /\ CacheUnchanged

\* tiff_loader.py:38  self._cache.move_to_end(block_id): KeyError if it has gone
GetMoveToEnd(t) ==
    /\ cache.thr[t].pc = "get_move"
    /\ cache' = IF Cached(cache.thr[t].block_id)
                THEN [cache EXCEPT !._cache = MoveToEnd(@, cache.thr[t].block_id),
                                   !.used = Touch(cache.thr[t].block_id),
                                   !.tick = @ + 1,
                                   !.thr[t].pc = "get_item"]
                ELSE [cache EXCEPT !.thr[t].pc = "raised"]
    /\ CacheUnchanged

\* tiff_loader.py:39  return self._cache[block_id]: KeyError if it has gone
GetItem(t) ==
    /\ cache.thr[t].pc = "get_item"
    /\ cache' = [cache EXCEPT !.thr[t].pc =
                    IF Cached(cache.thr[t].block_id) THEN "next" ELSE "raised"]
    /\ CacheUnchanged

\* tiff_loader.py:44, 46  put: if block_id in self._cache, else
PutContains(t) ==
    /\ cache.thr[t].pc = "put_in"
    /\ cache' = [cache EXCEPT !.thr[t].pc =
                    IF Cached(cache.thr[t].block_id) THEN "put_move" ELSE "put_len"]
    /\ CacheUnchanged

\* tiff_loader.py:45  self._cache.move_to_end(block_id)
PutMoveToEnd(t) ==
    /\ cache.thr[t].pc = "put_move"
    /\ cache' = IF Cached(cache.thr[t].block_id)
                THEN [cache EXCEPT !._cache = MoveToEnd(@, cache.thr[t].block_id),
                                   !.used = Touch(cache.thr[t].block_id),
                                   !.tick = @ + 1,
                                   !.thr[t].pc = "next"]
                ELSE [cache EXCEPT !.thr[t].pc = "raised"]
    /\ CacheUnchanged

\* tiff_loader.py:47  if len(self._cache) >= self._max_size
PutLen(t) ==
    /\ cache.thr[t].pc = "put_len"
    /\ cache' = [cache EXCEPT !.thr[t].pc =
                    IF Len(cache._cache) >= max_size THEN "put_pop" ELSE "put_set"]
    /\ CacheUnchanged

\* tiff_loader.py:48  self._cache.popitem(last=False): KeyError if it is empty
PutPopitem(t) ==
    /\ cache.thr[t].pc = "put_pop"
    /\ cache' = IF cache._cache # <<>>
                THEN [cache EXCEPT !._cache = Tail(@), !.thr[t].pc = "put_set"]
                ELSE [cache EXCEPT !.thr[t].pc = "raised"]
    /\ CacheUnchanged

\* tiff_loader.py:49  self._cache[block_id] = arrays: a new key goes to the end,
\* a key that is there keeps its place
PutSetitem(t) ==
    /\ cache.thr[t].pc = "put_set"
    /\ cache' = [cache EXCEPT !._cache = IF Cached(cache.thr[t].block_id) THEN @
                                         ELSE Append(@, cache.thr[t].block_id),
                              !.used = Touch(cache.thr[t].block_id),
                              !.tick = @ + 1,
                              !.thr[t].pc = "next"]
    /\ CacheUnchanged

\* the lists of at most n different blocks
BlockLists(n) ==
    {bs \in UNION {[1..k -> CacheBlocks] : k \in 0..n} :
        \A i, j \in DOMAIN bs : i # j => bs[i] # bs[j]}

\* a cache that earlier loads have filled, a load worker for one block and a
\* preload worker for the neighbours (viewer_panel.py:192-199, 319-332)
InitCache ==
    /\ files = EmptyDict
    /\ io = [p \in Procs |-> IdleFrame]
    /\ st = [p \in Procs |-> NoStore]
    /\ next_uuid = 0
    /\ clock = 0
    /\ faults = 0
    /\ lastWritten = [path \in TargetPaths |-> NoneVal]
    /\ protected = [k \in Users \X StorageKeys |-> 0]
    /\ finalWritten = [k \in StorageKeys |-> 0]
    /\ NoConsensus
    /\ panel = NoPanel
    /\ keyed = NoKeyed
    /\ app = NoApp
    /\ viewer = NoViewer
    /\ \E held \in BlockLists(max_size), one \in BlockLists(1),
          neighbors \in BlockLists(MaxPreload) :
          /\ Len(one) = 1
          /\ neighbors # <<>>
          /\ cache = [pc |-> "run", _cache |-> held,
                      thr |-> [t \in Threads |->
                                 [pc |-> "next", block_id |-> "",
                                  todo |-> IF t = 1 THEN one ELSE neighbors]],
                      used |-> [b \in {held[k] : k \in DOMAIN held} |->
                                  CHOOSE k \in DOMAIN held : held[k] = b],
                      tick |-> Len(held)]

NextCache ==
    \E t \in Threads :
        \/ WorkerNext(t) \/ GetContains(t) \/ GetMoveToEnd(t) \/ GetItem(t)
        \/ PutContains(t) \/ PutMoveToEnd(t) \/ PutLen(t) \/ PutPopitem(t)
        \/ PutSetitem(t)

SpecCache == InitCache /\ [][NextCache]_vars

InitTable ==
    /\ files = EmptyDict
    /\ io = [p \in Procs |-> IdleFrame]
    /\ st = [p \in Procs |-> NoStore]
    /\ next_uuid = 0
    /\ clock = 0
    /\ faults = 0
    /\ lastWritten = [path \in TargetPaths |-> NoneVal]
    /\ protected = [k \in Users \X StorageKeys |-> 0]
    /\ finalWritten = [k \in StorageKeys |-> 0]
    /\ NoConsensus
    /\ keyed = NoKeyed
    /\ app = NoApp
    /\ viewer = NoViewer
    /\ cache = NoCache
    /\ \E all_user_annotations \in UserData, block_ids \in BlockIdLists :
          panel = [NoPanel EXCEPT !.pc = "loaded",
                                  !._all_user_data = all_user_annotations,
                                  !.block_ids = block_ids]

NextTable == BuildConsensusTable \/ ExportCsv

SpecTable == InitTable /\ [][NextTable]_vars

(***************************************************************************)
(* Properties of atomic_write_json and read_json, checked under SpecIO.    *)
(***************************************************************************)
WritePcs == {"w_mkdir", "w_open", "w_dump", "w_fsync", "w_replace", "w_dirsync",
             "w_cleanup", "w_ok", "w_raised"}

ReadPcs == {"r_exists", "r_open", "r_none", "r_ok", "r_raised"}

\* process p takes a step of its call
Steps(p) == io'[p] # io[p]

\* what is at a path: the file, or NoneVal
At(fs, path) == IF path \in DOMAIN fs THEN fs[path] ELSE NoneVal

\* C1: at every step of every interleaving of writers on one path, failing and
\* crashed ones included, the target is absent or holds the whole text of one
\* document that was passed to a write, and what a reader gets is such a document
C1_TargetAlwaysWhole ==
    /\ \A path \in IOPaths :
          Exists(path) =>
              /\ IsComplete(files[path].data)
              /\ \E d \in IODocs : files[path].data = Serialize(d)
    /\ \A p \in Procs : io[p].pc = "r_ok" => io[p].result \in IODocs

\* a writer was killed with half a temporary file behind it while another writer
\* is in the middle of its call on the same path, whose target holds another document
C1_Witness ==
    \E p, q \in Procs :
        /\ p # q
        /\ io[p].pc = "crashed"
        /\ Exists(io[p].tmp_path)
        /\ ~IsComplete(files[io[p].tmp_path].data)
        /\ io[q].pc = "w_fsync"
        /\ io[q].filepath = io[p].filepath
        /\ Exists(io[q].filepath)
        /\ Parse(files[io[q].filepath].data) # io[q].data

\* C6: when atomic_write_json has succeeded, the temporary file of that call is
\* no longer in the directory
C6_NoTmpAfterSuccess ==
    \A p \in Procs :
        io[p].pc \in {"w_dirsync", "w_ok"} =>
            /\ io[p].tmp_path # io[p].filepath
            /\ ~Exists(io[p].tmp_path)

\* a call has succeeded: its target is there, its temporary file is not
C6_Witness ==
    \E p \in Procs :
        /\ io[p].pc = "w_ok"
        /\ io[p].tmp_path.ext = "tmp"
        /\ ~Exists(io[p].tmp_path)
        /\ Exists(io[p].filepath)

\* C7: after successful writes d1..dn to a path the path holds exactly the
\* text of dn, and a read of it returns dn.  The documents are JSON objects
\* with string keys, as are all documents the stores write.
C7_ReadReturnsLastWrite ==
    /\ [](\A path \in IOPaths :
            IF lastWritten[path] = NoneVal THEN ~Exists(path)
            ELSE /\ Exists(path)
                 /\ files[path].data = Serialize(lastWritten[path])
                 /\ Parse(files[path].data) = lastWritten[path])
    /\ [][\A p \in Procs :
            (io[p].pc = "r_open" /\ io'[p].pc = "r_ok") =>
                io'[p].result = lastWritten[io[p].filepath]]_vars

\* a read has returned the document of the latest write while an earlier
\* successful write of another document has not yet returned to its caller
C7_Witness ==
    \E p, q \in Procs :
        /\ io[p].pc = "r_ok"
        /\ io[p].result = lastWritten[io[p].filepath]
        /\ io[q].pc = "w_ok"
        /\ io[q].filepath = io[p].filepath
        /\ io[q].data # io[p].result

\* the steps of a write call other than its rename
BeforeRename(p) ==
    /\ Steps(p)
    /\ io[p].pc \in WritePcs
    /\ ~(io[p].pc = "w_replace" /\ io'[p].pc = "w_dirsync")

\* a failing call never renames, a call that has renamed never fails, and a
\* failing call raises
FailurePropagates ==
    /\ [](\A p \in Procs :
            /\ io[p].pc \in {"w_cleanup", "w_raised"} =>
                  io[p].failed_at \in {"mkdir", "open", "dump", "fsync", "replace"}
            /\ io[p].pc \in {"w_dirsync", "w_ok"} => io[p].failed_at = "none")
    /\ [][\A p \in Procs :
            /\ BeforeRename(p) =>
                  At(files', io[p].filepath) = At(files, io[p].filepath)
            /\ (Steps(p) /\ io[p].pc = "w_cleanup") =>
                  io'[p].pc \in {"w_raised", "crashed"}
            /\ (Steps(p) /\ io[p].pc \in {"w_dirsync", "w_ok"}) =>
                  io'[p].pc \in {"w_ok", "idle", "crashed"}]_vars

\* C5 as stated: when atomic_write_json fails at or before the rename, the call
\* has not changed the target, its temporary file is gone and the error is raised
C5_FailedWriteRemovesTmp ==
    /\ FailurePropagates
    /\ [](\A p \in Procs : io[p].pc = "w_raised" => ~Exists(io[p].tmp_path))

\* C5, amended: when atomic_write_json fails at or before the rename, the call
\* has not changed the target and the error is raised; its temporary file is gone
\* unless the unlink of the temporary file failed too
C5_FailedWriteRemovesTmpUnlessUnlinkFails ==
    /\ FailurePropagates
    /\ [](\A p \in Procs :
            io[p].pc = "w_raised" =>
                /\ io[p].tmp_path # io[p].filepath
                /\ Exists(io[p].tmp_path) <=> io[p].unlink_failed)

\* the rename of a call has failed over a target that another write had put
\* there; the call has raised, its temporary file is removed, the target stands
C5_Witness ==
    \E p \in Procs :
        /\ io[p].pc = "w_raised"
        /\ io[p].failed_at = "replace"
        /\ ~io[p].unlink_failed
        /\ ~Exists(io[p].tmp_path)
        /\ Exists(io[p].filepath)
        /\ Parse(files[io[p].filepath].data) # io[p].data

\* C8: read_json of a path where there is no file returns None, it does not raise
C8_MissingReadsAsNone ==
    /\ [](\A p \in Procs : io[p].pc = "r_raised" => Exists(io[p].filepath))
    /\ [][\A p \in Procs :
            (Steps(p) /\ io[p].pc = "r_exists" /\ ~Exists(io[p].filepath)) =>
                /\ io'[p].pc \in {"r_none", "crashed"}
                /\ io'[p].result = NoneVal
                /\ io'[p].last_exc = "none"]_vars

\* a read has returned None for a path that has no file yet, while a writer's
\* temporary file for that path is already there
C8_Witness ==
    \E p, q \in Procs :
        /\ io[p].pc = "r_none"
        /\ ~Exists(io[p].filepath)
        /\ io[q].pc = "w_fsync"
        /\ io[q].filepath = io[p].filepath
        /\ Exists(io[q].tmp_path)

\* the delays of the first k failed attempts
Backoff(k) == [j \in 1..k |-> BackoffMs * j]

Min(a, b) == IF a < b THEN a ELSE b

\* C9: read_json ends; it makes at most MaxAttempts attempts, sleeps after the
\* first and the second failed attempt only, for a longer time the second time,
\* and raises after the last failed attempt
C9_ReadTerminates ==
    /\ [](\A p \in Procs :
            io[p].pc \in ReadPcs =>
                /\ io[p].attempt \in 0..MaxAttempts
                /\ io[p].slept = Backoff(Min(io[p].attempt, MaxAttempts - 1))
                /\ io[p].pc = "r_raised" <=> io[p].attempt = MaxAttempts)
    /\ \A p \in Procs :
          (io[p].pc \in {"r_exists", "r_open"})
              ~> (io[p].pc \in {"r_none", "r_ok", "r_raised"})

\* a read has failed three times, has slept twice and has raised
C9_Witness ==
    \E p \in Procs :
        /\ io[p].pc = "r_raised"
        /\ io[p].attempt = MaxAttempts
        /\ io[p].slept = <<50, 100>>

\* C10: None is returned only from an attempt that finds no file; an attempt
\* that succeeds after failed ones returns the parsed document; when the last
\* attempt fails read_json raises, and returns neither None nor a document
C10_ReadOutcomes ==
    /\ [](\A p \in Procs :
            /\ io[p].pc = "r_raised" =>
                  io[p].last_exc \in {"OSError", "JSONDecodeError"} /\ io[p].result = NoneVal
            /\ io[p].pc = "r_none" => io[p].result = NoneVal
            /\ io[p].pc = "r_ok" => IsDoc(io[p].result))
    /\ [][\A p \in Procs :
            /\ (io'[p].pc = "r_none" /\ io[p].pc # "r_none") =>
                  io[p].pc = "r_exists" /\ ~Exists(io[p].filepath)
            /\ (io'[p].pc = "r_ok" /\ io[p].pc # "r_ok") =>
                  /\ io[p].pc = "r_open"
                  /\ Exists(io[p].filepath)
                  /\ io'[p].result = Parse(files[io[p].filepath].data)
            /\ (Steps(p) /\ io[p].pc = "r_open" /\ io[p].attempt = MaxAttempts - 1) =>
                  io'[p].pc \in {"r_ok", "r_raised", "crashed"}]_vars

\* one read has returned the document at its third attempt, another has raised
\* after three failed attempts
C10_Witness ==
    \E p, q \in Procs :
        /\ io[p].pc = "r_ok"
        /\ io[p].attempt = MaxAttempts - 1
        /\ io[p].result = Parse(files[io[p].filepath].data)
        /\ io[q].pc = "r_raised"

(***************************************************************************)
(* Properties of AnnotationStore, checked under Spec.                      *)
(***************************************************************************)
\* process p takes a step of its session
Acts(p) == io'[p] # io[p] \/ st'[p] # st[p]

\* C2: when set_label(b, l) returns, the user's document on disk holds l for b;
\* when the write has raised, set_label raises
C2_SetLabelIsOnDiskAtReturn ==
    [][\A p \in Procs :
        (st[p].op = "set_label" /\ st'[p].op = "none") =>
            \/ /\ io[p].pc = "w_ok"
               /\ st'[p].ret = "ok"
               /\ LabelIn(DiskDoc(files', st[p]._filepath),
                          GetStorageKey(st[p]._registry, st[p].block_id)) = st[p].label
            \/ /\ io[p].pc = "w_raised"
               /\ st'[p].ret = "raised"]_vars

\* C3: a record that set_label has put on disk is on disk, with the label of the
\* latest such set_label, for as long as clear_label has not been called for it
C3_PersistedRecordStays ==
    \A u \in Users, key \in StorageKeys :
        protected[<<u, key>>] # 0 =>
            LabelIn(DiskDoc(files, user_file(u)), key) = protected[<<u, key>>]

\* C4: the stores of two users have two paths, and no step of the session of one
\* user changes the file of another user
C4_UsersDoNotShareFiles ==
    /\ [](\A p, q \in Procs :
            /\ st[p]._filepath = user_file(st[p]._username)
            /\ st[p]._username # st[q]._username => st[p]._filepath # st[q]._filepath)
    /\ [][\A p \in Procs, u \in Users :
            (Acts(p) /\ st[p]._username # u) =>
                At(files', user_file(u)) = At(files, user_file(u))]_vars

\* the document of one user holds a label, and the session of another user has
\* just renamed its own document into place
C4_Witness ==
    \E p, q \in Procs :
        /\ st[p]._username # st[q]._username
        /\ \E key \in StorageKeys : LabelIn(DiskDoc(files, st[p]._filepath), key) # 0
        /\ io[q].pc = "w_dirsync"
        /\ IsDoc(DiskDoc(files, st[q]._filepath))
        /\ DiskDoc(files, st[q]._filepath).username = st[q]._username

\* the session of p is the only one that writes its path
OnlyWriter(p) == \A q \in Procs \ {p} : st[q]._filepath # st[p]._filepath

\* an operation of the store of p returns normally in this step
ReturnsOk(p) == st'[p] # st[p] /\ st'[p].op = "none" /\ st'[p].ret = "ok"

\* C11: when load_or_create, set_label or clear_label of a store that is the only
\* writer of its path has returned, the document on disk is the document in
\* memory, so a store loaded from the path gives the same get_label for every block
C11_DiskEqualsMemoryAfterOperation ==
    [][\A p \in Procs :
        (OnlyWriter(p) /\ ReturnsOk(p)) =>
            /\ DiskDoc(files', st[p]._filepath) = st'[p]._data
            /\ \A b \in BlockIds :
                  ~st[p]._registry =>
                      GetLabel([st'[p] EXCEPT !._data = DiskDoc(files', st[p]._filepath)], b)
                          = GetLabel(st'[p], b)]_vars

\* the record tokens of a text name pairwise different (container, item) pairs
NoDuplicateRecord(text) ==
    \A j, k \in 1..Len(text) :
        (j # k /\ text[j].tag = "record" /\ text[k].tag = "record") =>
            <<text[j].c, text[j].i>> # <<text[k].c, text[k].i>>

\* C12: on a loaded store get_label(b) is the label of the latest set_label(b, .)
\* when no clear_label(b) came after it and None otherwise: set_label(b, l) makes
\* it l, clear_label(b) makes it None, and nothing else changes it; a document
\* never has two records for one block
C12_GetLabelFollowsLastCall ==
    /\ [](\A p \in Procs : NoDuplicateRecord(Serialize(st[p]._data)))
    /\ [][\A p \in Procs, b \in BlockIds :
            (st[p].phase = "loaded" /\ ~st[p]._registry) =>
                GetLabel(st'[p], b) =
                    IF st[p].op = "none" /\ st'[p].op = "set_label" /\ st'[p].block_id = b
                    THEN st'[p].label
                    ELSE IF st[p].op = "none" /\ st'[p].op = "clear_label"
                            /\ st'[p].block_id = b
                         THEN 0
                         ELSE GetLabel(st[p], b)]_vars

\* a block is being relabelled: get_label gives the new label while the file
\* still holds the old one
C12_Witness ==
    \E p \in Procs, b \in BlockIds :
        /\ st[p].op = "set_label"
        /\ st[p].block_id = b
        /\ GetLabel(st[p], b) = 2
        /\ LabelIn(DiskDoc(files, st[p]._filepath), GetStorageKey(FALSE, b)) = 1

(***************************************************************************)
(* Properties of one store's operations, checked under SpecOne.            *)
(***************************************************************************)
\* C13: clear_label(b) of a block with a record takes exactly that record out of
\* the document and writes the document: get_label(b) is None, b is not in
\* annotated_block_ids(), every other record is as before, and what the rename
\* puts on disk is that document; clear_label(b) of a block without a record
\* changes neither the document in memory nor any file, and starts no write
C13_ClearLabelEffect ==
    [][\A p \in Procs :
        /\ (st[p].op = "none" /\ st'[p].op = "clear_label") =>
              /\ GetLabel(st[p], st'[p].block_id) # 0
              /\ GetLabel(st'[p], st'[p].block_id) = 0
              /\ AnnotatedBlockIds(st'[p]) = AnnotatedBlockIds(st[p]) \ {st'[p].block_id}
              /\ \A b \in BlockIds \ {st'[p].block_id} :
                    RecordIn(st'[p]._data, GetStorageKey(FALSE, b))
                        = RecordIn(st[p]._data, GetStorageKey(FALSE, b))
              /\ io'[p] = WriteFrame(st[p]._filepath, st'[p]._data)
        /\ (st[p].op = "clear_label" /\ io[p].pc = "w_replace" /\ io'[p].pc = "w_dirsync") =>
              /\ DiskDoc(files', st[p]._filepath) = st[p]._data
              /\ LabelIn(DiskDoc(files', st[p]._filepath),
                         GetStorageKey(FALSE, st[p].block_id)) = 0
        /\ ClearLabelAbsent(p) =>
              /\ st'[p]._data = st[p]._data
              /\ files' = files
              /\ io' = io
              /\ next_uuid' = next_uuid]_vars

\* clear_label("d/x") has been renamed onto the file; "d/y", a record of the same
\* container, is still in the document, in memory and on disk
C13_Witness ==
    \E p \in Procs :
        /\ st[p].op = "clear_label"
        /\ st[p].block_id = <<"d", "/", "x">>
        /\ io[p].pc = "w_dirsync"
        /\ AnnotatedBlockIds(st[p]) = {<<"d", "/", "y">>}
        /\ LabelIn(DiskDoc(files, st[p]._filepath),
                   GetStorageKey(FALSE, <<"d", "/", "y">>)) # 0

\* no container key of a mapping of containers has an empty inner mapping
NoEmptyContainer(m) == \A c \in DOMAIN m : DOMAIN m[c] # {}

\* neither the annotations nor the labels of a document have an empty container
WellPruned(d) ==
    /\ NoEmptyContainer(Get(d, "annotations", EmptyDict))
    /\ NoEmptyContainer(Get(d, "labels", EmptyDict))

\* C14: whatever set_label, clear_label and set_final_label calls were made, no
\* container key of annotations or of labels has an empty inner mapping, in the
\* documents in memory and in the documents on disk
C14_NoEmptyContainers ==
    /\ \A p \in Procs :
          WellPruned(st[p]._data) /\ WellPruned(st[p].final_label_store._data)
    /\ \A path \in TargetPaths :
          (Exists(path) /\ IsDoc(DiskDoc(files, path))) => WellPruned(DiskDoc(files, path))

\* clear_label has taken the last record out of container "d" and the container
\* with it, the document is on disk, and the session has written a final label
C14_Witness ==
    \E p \in Procs :
        /\ st[p].op = "clear_label"
        /\ st[p].block_id = <<"d", "/", "x">>
        /\ io[p].pc = "w_dirsync"
        /\ st[p]._data.annotations = EmptyDict
        /\ DiskDoc(files, st[p]._filepath).annotations = EmptyDict
        /\ Exists(final_labels_file)
        /\ FinalBlockIds(st[p].final_label_store) # {}

(***************************************************************************)
(* Properties of the shared final-labels document, checked under SpecFinal.*)
(***************************************************************************)
\* C15: for every storage key, the final label on disk is the label of the
\* set_final_label whose write reached the file last among those for that key,
\* whichever admin has written other keys since
C15_LastWriterWinsPerKey ==
    \A key \in StorageKeys :
        finalWritten[key] # 0 =>
            FinalLabelIn(DiskDoc(files, final_labels_file), key) = finalWritten[key]

\* the rename of a set_final_label of p
FinalRename(p) ==
    st[p].op = "set_final_label" /\ io[p].pc = "w_replace" /\ io'[p].pc = "w_dirsync"

\* C16: every set_final_label replaces the whole final-labels document by the
\* in-memory document of its session and nothing else changes the file, so the
\* file is the whole document of the session whose write reached it last
C16_WholeDocumentLastWriterWins ==
    /\ [](IF lastWritten[final_labels_file] = NoneVal THEN ~Exists(final_labels_file)
          ELSE DiskDoc(files, final_labels_file) = lastWritten[final_labels_file])
    /\ [][\A p \in Procs :
            /\ FinalRename(p) =>
                  /\ DiskDoc(files', final_labels_file) = st[p].final_label_store._data
                  /\ lastWritten'[final_labels_file] = st[p].final_label_store._data
            /\ (Steps(p) /\ ~FinalRename(p)) =>
                  At(files', final_labels_file) = At(files, final_labels_file)]_vars

\* two admins have written: the file is the document of the one whose write
\* came last, and a final label the other has written and still holds is not in it
C16_Witness ==
    \E p, q \in Procs, b \in BlockIds :
        /\ p # q
        /\ st[p].op = "none" /\ st[p].ret = "ok"
        /\ io[q].pc = "w_dirsync"
        /\ DiskDoc(files, final_labels_file) = st[q].final_label_store._data
        /\ GetFinalLabel(st[p].final_label_store, b) # 0
        /\ finalWritten[FinalGetStorageKey(FALSE, b)] # 0
        /\ FinalLabelIn(DiskDoc(files, final_labels_file), FinalGetStorageKey(FALSE, b)) = 0

\* Properties of load_or_create, checked under SpecOne

\* C17: load_or_create takes the creating branch exactly when no file is at the
\* path, and returns from it with the file holding a document with the store's
\* username and no annotations, annotated_block_ids() being empty; when a
\* document is at the path it returns with that document in memory, and no step
\* of the call changes a file
C17_LoadOrCreate ==
    [][\A p \in Procs :
        /\ (st[p].op = "load_or_create" /\ io[p].pc = "r_none" /\ Acts(p)) =>
              ~Exists(st[p]._filepath)
        /\ (st[p].op = "load_or_create" /\ io[p].pc = "w_ok" /\ ReturnsOk(p)) =>
              /\ st[p]._filepath \in DOMAIN files'
              /\ DiskDoc(files', st[p]._filepath) = st'[p]._data
              /\ st'[p]._data.username = st[p]._username
              /\ st'[p]._data.annotations = EmptyDict
              /\ AnnotatedBlockIds(st'[p]) = {}
        /\ (st[p].op = "load_or_create" /\ io[p].pc \in ReadPcs /\ Acts(p)
              /\ Exists(st[p]._filepath)) =>
              /\ files' = files
              /\ io'[p].pc \in ReadPcs \cup {"idle"}
              /\ ReturnsOk(p) => st'[p]._data = DiskDoc(files, st[p]._filepath)]_vars

\* load_or_create has returned from the creating branch: the new document is on disk
C17_Witness ==
    \E p \in Procs :
        /\ st[p].phase = "loaded" /\ st[p].op = "none" /\ st[p].ret = "ok"
        /\ io[p].pc = "idle"
        /\ clock = 1
        /\ st[p]._data = FreshDoc(st[p]._username, 1)
        /\ DiskDoc(files, st[p]._filepath) = FreshDoc(st[p]._username, 1)

\* Properties of FinalLabelStore.load, checked under SpecOne

\* C18: when load returns, the labels of the store are the labels of the document
\* at the path, and there are none when no document is at the path, whatever the
\* store held before the call
C18_LoadMirrorsDisk ==
    [][\A p \in Procs :
        (st[p].op = "load" /\ ReturnsOk(p)) =>
            st'[p].final_label_store._data.labels =
                IF Exists(final_labels_file)
                THEN DiskDoc(files, final_labels_file).labels
                ELSE EmptyDict]_vars

\* Properties of set_final_label and get_final_label, checked under SpecFinal

\* who set the record of a storage key in a final-labels document, or ""
SetByIn(d, key) ==
    LET blocks == Get(Get(d, "labels", EmptyDict), key.parent_path, EmptyDict)
    IN IF key.block_name \in DOMAIN blocks THEN blocks[key.block_name].set_by ELSE ""

\* C19: when set_final_label(b, l, a) returns, get_final_label(b) is l and the
\* record names a as set_by; unless another label has been written for b since,
\* the document at the path gives l for b, so a store loaded from it returns l;
\* a block has a final label in a store only if one was given to it
C19_SetFinalLabelEffect ==
    /\ [](\A p \in Procs, b \in BlockIds :
            GetFinalLabel(st[p].final_label_store, b) # 0 =>
                \/ finalWritten[FinalGetStorageKey(FALSE, b)] # 0
                \/ st[p].op = "set_final_label" /\ st[p].block_id = b)
    /\ [][\A p \in Procs :
            (st[p].op = "set_final_label" /\ ReturnsOk(p)) =>
                LET key == FinalGetStorageKey(FALSE, st[p].block_id)
                IN /\ GetFinalLabel(st'[p].final_label_store, st[p].block_id) = st[p].label
                   /\ SetByIn(st'[p].final_label_store._data, key) = st[p]._username
                   /\ finalWritten[key] = st[p].label =>
                         FinalLabelIn(DiskDoc(files', final_labels_file), key) = st[p].label]_vars

\* Properties of compute_consensus, checked under SpecConsensus

\* the values of a list of labels other than None
Distinct(labels) == {labels[i] : i \in DOMAIN labels} \ {0}

\* C20: has_disagreement is true exactly when the labels other than None have
\* more than one distinct value: it is false for a list with no label, the same
\* with the None entries removed, and true whenever two labels tie
C20_DisagreementIffTwoValues ==
    consensus # NoneVal =>
        /\ consensus.has_disagreement <=> Cardinality(Distinct(votes)) > 1
        /\ Distinct(votes) = {} => ~consensus.has_disagreement
        /\ consensus.has_disagreement = compute_consensus(Valid(votes)).has_disagreement
        /\ \A a, b \in Distinct(votes) :
              (a # b /\ Counter(Valid(votes))[a] = Counter(Valid(votes))[b]) =>
                  consensus.has_disagreement

\* compute_consensus has returned for a list with a None entry and two labels
\* that tie: the smaller label is the consensus and the flag is set
C20_Witness ==
    /\ votes = <<2, 0, 1>>
    /\ consensus = [consensus_label |-> 1, has_disagreement |-> TRUE]

\* how often a label occurs in a list
Occurrences(labels, lbl) == Cardinality({i \in DOMAIN labels : labels[i] = lbl})

\* C21: the consensus is None exactly when the list has no label other than
\* None; otherwise it is a label of the list that occurs at least as often as
\* every other one and is the smallest of those that occur as often
C21_ConsensusIsSmallestLeader ==
    consensus # NoneVal =>
        /\ consensus.consensus_label = 0 <=> Distinct(votes) = {}
        /\ Distinct(votes) # {} =>
              /\ consensus.consensus_label \in Distinct(votes)
              /\ \A other \in Distinct(votes) :
                    /\ Occurrences(votes, other) <= Occurrences(votes, consensus.consensus_label)
                    /\ Occurrences(votes, other) = Occurrences(votes, consensus.consensus_label)
                          => consensus.consensus_label <= other

\* compute_consensus has returned for a list in which two labels occur twice
\* each, the larger one first: the smaller one is the consensus
C21_Witness ==
    /\ votes = <<2, 1, 2, 1>>
    /\ consensus # NoneVal
    /\ consensus.consensus_label = 1

\* Properties of build_consensus_table, checked under SpecTable

\* C22: the table has one row per element of block_ids, row i being the row of
\* block_ids[i], whatever the users mapping holds and in whatever order it iterates
C22_OneRowPerBlockInOrder ==
    panel.pc # "loaded" =>
        /\ Len(panel._consensus_rows) = Len(panel.block_ids)
        /\ \A i \in DOMAIN panel.block_ids :
              panel._consensus_rows[i].block_id = panel.block_ids[i]

\* the table is built for two block ids given in descending order, the second
\* of which nobody has annotated, from a mapping that iterates "bo" before "al"
C22_Witness ==
    /\ panel.pc = "built"
    /\ panel.block_ids = <<<<"x">>, <<"d", "/", "x">>>>
    /\ Len(panel._all_user_data) = 2
    /\ panel._all_user_data[1][1] = "bo"
    /\ panel._consensus_rows[1].user_labels # <<>>
    /\ panel._consensus_rows[2].user_labels = <<>>
    /\ panel._consensus_rows[2].block_id = <<"d", "/", "x">>

\* the record the users mapping holds for a user and a block, NoneVal when none
EntryOf(all_user_annotations, username, block_id) ==
    Get(Lookup(all_user_annotations, username, EmptyDict), block_id, NoneVal)

\* every record the users mapping holds for the block has a label
WellFormedFor(all_user_annotations, block_id) ==
    \A u \in Users :
        LET entry == EntryOf(all_user_annotations, u, block_id)
        IN entry # NoneVal => entry # EmptyDict /\ "label" \in DOMAIN entry

\* the labels of the users that have a record for the block, in the order of Users
LabelsByName(all_user_annotations, block_id) ==
    LET named == SelectSeq(SetToSeq(Users),
                           LAMBDA u : EntryOf(all_user_annotations, u, block_id) # NoneVal)
    IN [i \in DOMAIN named |-> EntryOf(all_user_annotations, named[i], block_id).label]

\* C23: in the row of a block for which every record has a label, user_labels
\* has one entry for each user that has a record for the block and for no other
\* user, it maps the user to the label of that record, and consensus and
\* disagreement are what compute_consensus gives for those labels
C23_RowHoldsTheUsersLabels ==
    panel.pc # "loaded" =>
        \A i \in DOMAIN panel._consensus_rows :
            LET row == panel._consensus_rows[i]
                data == panel._all_user_data
            IN WellFormedFor(data, panel.block_ids[i]) =>
                /\ \A j, k \in DOMAIN row.user_labels :
                      j # k => row.user_labels[j][1] # row.user_labels[k][1]
                /\ \A u \in Users :
                      LET entry == EntryOf(data, u, panel.block_ids[i])
                      IN /\ (\E k \in DOMAIN row.user_labels : row.user_labels[k][1] = u)
                              <=> entry # NoneVal
                         /\ entry # NoneVal => Lookup(row.user_labels, u, 0) = entry.label
                /\ [consensus_label |-> row.consensus, has_disagreement |-> row.disagreement]
                      = compute_consensus(LabelsByName(data, panel.block_ids[i]))

\* the table is built for a block that "bo", who comes first in the mapping, has
\* labelled 2 and "al" 1, and for a block only "al" has labelled
C23_Witness ==
    /\ panel.pc = "built"
    /\ panel.block_ids = <<<<"d", "/", "x">>, <<"x">>>>
    /\ Len(panel._all_user_data) = 2
    /\ panel._all_user_data[1][1] = "bo"
    /\ panel._consensus_rows[1].user_labels = <<<<"bo", 2>>, <<"al", 1>>>>
    /\ panel._consensus_rows[1].consensus = 1
    /\ panel._consensus_rows[1].disagreement
    /\ panel._consensus_rows[2].user_labels = <<<<"al", 1>>>>
    /\ ~panel._consensus_rows[2].disagreement

\* a record is malformed when it is empty or has no label
Malformed(entry) == entry # NoneVal /\ (entry = EmptyDict \/ "label" \notin DOMAIN entry)

\* the labels of the users that have a record with a label for the block
WellFormedLabels(all_user_annotations, block_id) ==
    LET named == SelectSeq(SetToSeq(Users),
                           LAMBDA u : /\ EntryOf(all_user_annotations, u, block_id) # NoneVal
                                      /\ ~Malformed(EntryOf(all_user_annotations, u, block_id)))
    IN [i \in DOMAIN named |-> EntryOf(all_user_annotations, named[i], block_id).label]

\* C24: the table has a row for every block whatever the records are, and a user
\* whose record for the block is malformed is not in the row's user_labels and
\* does not count in its consensus
C24_MalformedEntriesAreAbsent ==
    panel.pc # "loaded" =>
        /\ Len(panel._consensus_rows) = Len(panel.block_ids)
        /\ \A i \in DOMAIN panel._consensus_rows :
              LET row == panel._consensus_rows[i]
                  data == panel._all_user_data
              IN /\ \A u \in Users :
                        Malformed(EntryOf(data, u, panel.block_ids[i])) =>
                            \A k \in DOMAIN row.user_labels : row.user_labels[k][1] # u
                 /\ [consensus_label |-> row.consensus, has_disagreement |-> row.disagreement]
                       = compute_consensus(WellFormedLabels(data, panel.block_ids[i]))

\* Properties of export_csv, checked under SpecTable

\* where a username stands in the order of names
Rank(u) == CHOOSE i \in DOMAIN NameOrder : NameOrder[i] = u

\* C25: the exported file is a header followed by one row per consensus row, in
\* the order of the consensus rows; the columns are block_id, consensus_label,
\* final_label, has_disagreement, one user_<name>_label per username in
\* ascending order of the names, and exported_at, which is the same in every row
C25_CsvShape ==
    panel.pc = "exported" =>
        LET header == panel.csv[1]
            n == Len(panel.usernames)
        IN /\ Len(panel.csv) = 1 + Len(panel._consensus_rows)
           /\ Len(header) = 5 + n
           /\ SubSeq(header, 1, 4) = <<<<"block_id">>, <<"consensus_label">>,
                                       <<"final_label">>, <<"has_disagreement">>>>
           /\ header[5 + n] = <<"exported_at">>
           /\ \A c \in 5..(4 + n) :
                 /\ header[c][1] = "user_" /\ header[c][3] = "_label"
                 /\ c < 4 + n => Rank(header[c][2]) <= Rank(header[c + 1][2])
           /\ \A u \in Users :
                 Cardinality({c \in 5..(4 + n) : header[c][2] = u})
                     = Cardinality({k \in DOMAIN panel.usernames : panel.usernames[k] = u})
           /\ \A i \in DOMAIN panel._consensus_rows :
                 /\ Len(panel.csv[i + 1]) = Len(header)
                 /\ panel.csv[i + 1][1] = panel._consensus_rows[i].block_id
                 /\ panel.csv[i + 1][5 + n] = panel.csv[2][5 + n]

\* two rows are exported for the usernames "bo", "al" given in that order
C25_Witness ==
    /\ panel.pc = "exported"
    /\ panel.usernames = <<"bo", "al">>
    /\ Len(panel.csv) = 3
    /\ panel.csv[1][5] = <<"user_", "al", "_label">>
    /\ panel.csv[1][6] = <<"user_", "bo", "_label">>
    /\ panel.csv[2][1] = <<"d", "/", "x">>
    /\ panel.csv[3][1] = <<"x">>

\* Properties of the exported file, checked under SpecAdmin

\* the label a user's file holds for a block, 0 when there is no file or no record
LabelOnDisk(username, block_id) ==
    IF Exists(user_file(username))
    THEN LabelIn(DiskDoc(files, user_file(username)), GetStorageKey(FALSE, block_id))
    ELSE 0

\* the final label the final-labels file holds for a block, 0 when none
FinalLabelOnDisk(block_id) ==
    IF Exists(final_labels_file)
    THEN FinalLabelIn(DiskDoc(files, final_labels_file), FinalGetStorageKey(FALSE, block_id))
    ELSE 0

\* C26: in every exported row, consensus_label is blank exactly when the row has
\* no consensus, final_label is the final label stored for the block and blank
\* exactly when there is none, has_disagreement is True only when two users have
\* different labels for the block, and the cell of each user is the user's label
\* for the block and blank exactly when the user has none
C26_CellsOfExportedRows ==
    panel.pc = "exported" =>
        \A i \in DOMAIN panel._consensus_rows :
            LET row == panel._consensus_rows[i]
                cells == panel.csv[i + 1]
                sorted_users == Sorted(panel.usernames)
            IN /\ cells[2] = "" <=> row.consensus = 0
               /\ cells[3] = LabelCell(FinalLabelOnDisk(row.block_id))
               /\ cells[3] = "" <=> FinalLabelOnDisk(row.block_id) = 0
               /\ cells[4] = "True" =>
                     \E u, v \in Users :
                         /\ LabelOnDisk(u, row.block_id) # 0
                         /\ LabelOnDisk(v, row.block_id) # 0
                         /\ LabelOnDisk(u, row.block_id) # LabelOnDisk(v, row.block_id)
               /\ \A k \in DOMAIN sorted_users :
                     /\ cells[4 + k] = LabelCell(LabelOnDisk(sorted_users[k], row.block_id))
                     /\ cells[4 + k] = "" <=> LabelOnDisk(sorted_users[k], row.block_id) = 0

(***************************************************************************)
(* Properties of storage keys.                                             *)
(***************************************************************************)

\* C27: in a session that was given a registry every block id has a storage key,
\* the same for block ids in the same container with the same name, so that
\* set_label, get_label and clear_label do not fail there and a label stored in
\* one session is found in a later one; checked under Spec
C27_RegistryKeysMerge ==
    [][\A p \in Procs :
        (st[p]._registry /\ Ready(p) /\ Acts(p)) =>
            /\ \A b \in BlockIds : GetStorageKey(st[p]._registry, b).ok
            /\ st'[p].ret # "raised"]_vars

\* the block id has no "/"
Bare(block_id) == \A k \in DOMAIN block_id : block_id[k] # "/"

\* C28: without a registry the storage key of a block id without "/" is
\* ("", block_id), and that of any other block id is the pair (container, name)
\* with block_id = container + "/" + name and no "/" in name; both stores derive
\* the same key; checked under SpecKeys
C28_KeySplitsAtLastSlash ==
    keyed.pc = "keyed" =>
        LET key == keyed.store_key
        IN /\ key.ok
           /\ Bare(key.block_name)
           /\ Bare(keyed.block_id) =>
                 key.parent_path = <<>> /\ key.block_name = keyed.block_id
           /\ ~Bare(keyed.block_id) =>
                 keyed.block_id = key.parent_path \o <<"/">> \o key.block_name
           /\ keyed.final_key = key

\* both stores have derived the key of "/x/": the container is "/x", the name ""
C28_Witness ==
    /\ keyed.pc = "keyed"
    /\ keyed.block_id = <<"/", "x", "/">>
    /\ keyed.store_key = KeyOf(<<"/", "x">>, <<>>)
    /\ keyed.final_key = KeyOf(<<"/", "x">>, <<>>)

\* C29: for every record held by a store without a registry, the block id that
\* all_annotations() (all_labels() for the final-label store) gives it,
\* container + "/" + name or the bare name under the empty container, passed to
\* get_label (get_final_label) returns the label of that record; checked under
\* SpecKeys
C29_StorageKeysRoundTrip ==
    \A p \in Procs :
        (Ready(p) /\ ~st[p]._registry) =>
            /\ \A block_id \in DOMAIN all_annotations(st[p]) :
                  GetLabel(st[p], block_id) =
                      Get(all_annotations(st[p])[block_id], "label", 0)
            /\ \A block_id \in DOMAIN all_labels(st[p].final_label_store) :
                  GetFinalLabel(st[p].final_label_store, block_id) =
                      Get(all_labels(st[p].final_label_store)[block_id],
                          "final_label", 0)

\* the store holds a record under the container "d" and the final-label store
\* one under the empty container, and each is found under its reconstructed id
C29_Witness ==
    /\ Ready(TheSession)
    /\ <<"d", "/", "x">> \in DOMAIN all_annotations(st[TheSession])
    /\ GetLabel(st[TheSession], <<"d", "/", "x">>) \in Labels
    /\ <<"x">> \in DOMAIN all_labels(st[TheSession].final_label_store)
    /\ GetFinalLabel(st[TheSession].final_label_store, <<"x">>) \in Labels

C31_CreatedAtSetOnce ==
    [][/\ \A u \in Users :
            LET before == DiskDoc(files, user_file(u))
                after == DiskDoc(files', user_file(u))
            IN (IsDoc(before) /\ IsDoc(after)) =>
                   after.created_at = before.created_at
       /\ \A p \in Procs :
            (Ready(p) /\ Get(st'[p]._data, "annotations", EmptyDict)
                             # Get(st[p]._data, "annotations", EmptyDict)) =>
                st'[p]._data.updated_at = clock']_vars

\* C32: when a read_json of session start (of the user's document, the final
\* labels or the roles) raises after its last attempt, the user's document is as
\* it was when the program started, neither created nor overwritten, and the
\* only thing the program still does is to show the error and exit: it opens no
\* window and writes nothing; checked under SpecStartup
C32_ReadFailureAbortsStartup ==
    [][\A p \in Procs :
          /\ (app.pc \in StartupPcs /\ io[p].pc = "r_raised" /\ io'[p].pc = "idle") =>
                /\ st'[p].ret = "raised"
                /\ At(files', user_file(st[p]._username)) = app.at_start
          /\ (app.pc \in StartupPcs /\ p = TheSession /\ st[p].ret = "raised") =>
                /\ app'.pc = "exited"
                /\ app'.error_shown
                /\ ~app'.admin_tab
                /\ files' = files
                /\ io' = io]_vars

\* the roles file on disk lists the username under "admins"
ListedOnDisk(username) ==
    LET roles == DiskDoc(files, roles_file)
    IN /\ IsDoc(roles)
       /\ "admins" \in DOMAIN roles
       /\ username \in roles.admins

\* C33: a session calls set_final_label only if the roles file listed its
\* username under admins when the session was loaded; a session whose roles file
\* is missing or does not list it never writes the final-labels document;
\* checked under SpecStartup, where nothing writes the roles file
C33_OnlyAdminsWriteFinalLabels ==
    /\ [](\A p \in Procs :
            (p = TheSession /\ ~ListedOnDisk(st[p]._username)) =>
                /\ st[p].op # "set_final_label"
                /\ io[p].filepath # final_labels_file \/ io[p].pc \notin WritePcs
                /\ lastWritten[final_labels_file] = NoneVal)
    /\ [][\A p \in Procs :
            (st'[p].op = "set_final_label" /\ st[p].op # "set_final_label") =>
                /\ app.pc = "window"
                /\ app.admin_tab
                /\ ListedOnDisk(st[p]._username)]_vars

\* "bo", listed with "al" in the roles file, has put a final label on disk
C33_Witness ==
    /\ st[TheSession]._username = "bo"
    /\ ListedOnDisk("bo")
    /\ app.pc = "window"
    /\ lastWritten[final_labels_file] # NoneVal
    /\ FinalLabelIn(DiskDoc(files, final_labels_file),
                    FinalGetStorageKey(FALSE, <<"d", "/", "x">>)) # 0

\* the call of p has named its temporary file and has not yet renamed or removed it
HasTmp(f) == f.pc \in {"w_open", "w_dump", "w_fsync", "w_replace"}

\* C34: within a call of atomic_write_json the temporary file lies in the
\* directory of the target; it holds the whole text and is synced when it is
\* renamed onto the target; the directory sync comes only after the rename; so
\* no target is ever a file that is not synced; and two calls in progress never
\* have the same temporary file; checked under SpecIO
C34_WriteStepsInOrder ==
    /\ [](/\ \A path \in TargetPaths : Exists(path) => files[path].synced
          /\ \A p \in Procs :
                HasTmp(io[p]) =>
                    /\ io[p].tmp_path.dir = io[p].filepath.dir
                    /\ io[p].tmp_path # io[p].filepath
                    /\ \A q \in Procs \ {p} :
                          HasTmp(io[q]) => io[q].tmp_path # io[p].tmp_path)
    /\ [][\A p \in Procs :
            /\ (io[p].pc = "w_replace" /\ io'[p].pc = "w_dirsync") =>
                  /\ files[io[p].tmp_path] = File(Serialize(io[p].data), TRUE)
                  /\ files'[io[p].filepath] = files[io[p].tmp_path]
            /\ (io'[p].pc = "w_dirsync" /\ io[p].pc # "w_dirsync") =>
                  /\ io[p].pc = "w_replace"
                  /\ ~Exists(io[p].tmp_path)'
            /\ (io'[p].pc = "w_replace" /\ io[p].pc # "w_replace") =>
                  io[p].pc = "w_fsync"]_vars

\* one call has renamed its file onto the target and is at the directory sync
\* while another call for the same target holds its own written temporary file
C34_Witness ==
    \E p, q \in Procs :
        /\ p # q
        /\ io[p].pc = "w_dirsync"
        /\ io[q].pc = "w_replace"
        /\ io[q].filepath = io[p].filepath
        /\ files[io[p].filepath] = File(Serialize(io[p].data), TRUE)
        /\ Exists(io[q].tmp_path)

\* C35: whenever _annotate or _undo_annotation runs, the block id it records
\* against is the block whose images the viewer shows, whatever the order in
\* which the loads of the blocks selected one after another have completed;
\* stated for the calls made when no load is in flight and none has failed;
\* checked under SpecViewer
C35_LabelGoesToTheBlockOnScreen ==
    (viewer.recorded # NoneVal /\ ~viewer.recorded.loading /\ ~viewer.recorded.errored) =>
        viewer.recorded.block_id = viewer.recorded.shown

\* C36: after a refresh of the admin panel, for every block b of the registry
\* and every user u whose document on disk holds a label l for b, the row of b
\* lists u with l in user_labels, so that the block counts as annotated;
\* checked under SpecAdmin, where the files do not change after the refresh
C36_RefreshShowsTheLabelsOnDisk ==
    panel.pc \in {"built", "exported"} =>
        \A i \in DOMAIN panel._consensus_rows :
            LET row == panel._consensus_rows[i]
            IN \A u \in Users :
                  LabelOnDisk(u, row.block_id) # 0 =>
                      /\ Lookup(row.user_labels, u, 0) = LabelOnDisk(u, row.block_id)
                      /\ row.user_labels # <<>>

\* C37: when the write inside set_label, clear_label or set_final_label has
\* failed and the call raises, the store is as before the call: get_label,
\* annotated_block_ids() and get_final_label give what the documents on disk
\* hold; checked under SpecOne, where the session is the only writer
C37_FailedWriteLeavesMemoryAsOnDisk ==
    [][\A p \in Procs :
        (/\ st[p].op \in {"set_label", "clear_label", "set_final_label"}
         /\ st'[p].op = "none"
         /\ st'[p].ret = "raised") =>
            LET on_disk == DiskDoc(files', st[p]._filepath)
                final_on_disk == DiskDoc(files', st[p].final_label_store._filepath)
            IN /\ \A b \in BlockIds :
                     /\ GetLabel(st'[p], b) = LabelIn(on_disk, GetStorageKey(FALSE, b))
                     /\ GetFinalLabel(st'[p].final_label_store, b) =
                            FinalLabelIn(final_on_disk, FinalGetStorageKey(FALSE, b))
               /\ AnnotatedBlockIds(st'[p]) =
                      AnnotatedBlockIds([st'[p] EXCEPT !._data = on_disk])]_vars

\* C38: load_or_create never puts its fresh document over a document that holds
\* records, and when the load_or_create of a session returns, every label that
\* a set_label of another session of the user has persisted, and that has not
\* been cleared, is on disk; checked under Spec
C38_LoadOrCreateKeepsRecords ==
    [][\A p \in Procs :
        /\ (st[p].op = "load_or_create" /\ io[p].pc = "w_replace"
                /\ io'[p].pc = "w_dirsync" /\ Exists(st[p]._filepath)) =>
              AnnotatedBlockIds([st[p] EXCEPT !._data = DiskDoc(files, st[p]._filepath)])
                  = {}
        /\ (st[p].op = "load_or_create" /\ ReturnsOk(p)) =>
              \A key \in StorageKeys :
                  protected[<<st[p]._username, key>>] # 0 =>
                      LabelIn(DiskDoc(files', st[p]._filepath), key)
                          = protected[<<st[p]._username, key>>]]_vars

C40_CacheBoundedAndLru ==
    /\ [](Len(cache._cache) <= max_size)
    /\ [][\A b \in CacheBlocks :
            (Cached(b) /\ ~Cached(b)') =>
                \A c \in CacheBlocks : Cached(c) => cache.used[b] <= cache.used[c]]_vars

====
